---- MODULE Spec2Model ----
(***************************************************************************)
(* Verification model of the Vastu floor-plan core:                        *)
(*   - the force-directed placer   (backend/app/solvers/graph_solver.py)   *)
(*   - the simulated-annealing refiner                                     *)
(*                          (backend/app/solvers/impl/sa_solver_impl.py)   *)
(*                                                                         *)
(* Lengths are fixed-point integers, Scale units to the metre (1 unit =    *)
(* 1 cm).  Python float division is modelled by Quot, which truncates      *)
(* toward zero, and np.linalg.norm by the integer square root.             *)
(* The process-wide numpy generator is the variable rng: a deterministic   *)
(* generator whose state np.random.seed replaces and every draw advances.  *)
(***************************************************************************)
EXTENDS Integers, Sequences, FiniteSets, TLC

(***************************************************************************)
(* Bounds of the model                                                     *)
(***************************************************************************)
\* number of states of the modelled random generator
RngMod == 4
\* largest seed a request carries
MaxSeed == 1
\* how many times the client calls solve_floor_plan with its request
MaxCalls == 2

(***************************************************************************)
(* Fixed-point arithmetic                                                  *)
(***************************************************************************)
\* units per metre
Scale == 100

None == "None"

Abs(a) == IF a < 0 THEN -a ELSE a
Max(a, b) == IF a >= b THEN a ELSE b
Min(a, b) == IF a <= b THEN a ELSE b

\* a / b of Python floats, truncated toward zero (b > 0)
Quot(a, b) == IF a >= 0 THEN a \div b ELSE -((-a) \div b)

\* np.clip(v, lo, hi) == minimum(maximum(v, lo), hi): hi wins when lo > hi
Clip(v, lo, hi) == Min(Max(v, lo), hi)

RECURSIVE SqrtIter(_, _, _)
SqrtIter(n, lo, hi) ==
    IF lo >= hi THEN lo
    ELSE LET mid == (lo + hi + 1) \div 2
         IN  IF mid * mid <= n THEN SqrtIter(n, mid, hi)
                               ELSE SqrtIter(n, lo, mid - 1)

\* floor of the square root
Isqrt(n) == IF n <= 0 THEN 0 ELSE SqrtIter(n, 0, Min(n, 46340))

\* 2-vectors are pairs <<x, y>>
VAdd(a, b) == <<a[1] + b[1], a[2] + b[2]>>
VSub(a, b) == <<a[1] - b[1], a[2] - b[2]>>
VNeg(a) == <<-a[1], -a[2]>>
Zero2 == <<0, 0>>
Dot(a, b) == a[1] * b[1] + a[2] * b[2]
\* np.linalg.norm
Norm(a) == Isqrt(Dot(a, a))
\* (a * k) / d, componentwise
VScale(a, k, d) == <<Quot(a[1] * k, d), Quot(a[2] * k, d)>>

(***************************************************************************)
(* The numpy global generator                                              *)
(***************************************************************************)
\* advancing the generator state by one draw
RandNext(s) == (5 * s + 3) % RngMod

\* np.random.seed(seed)
SeedState(seed) == seed % RngMod

\* np.random.uniform(lo, hi) read off generator state s (the state after
\* the advance), on a grid of RngMod points
Uniform(s, lo, hi) == lo + Quot((hi - lo) * s, RngMod - 1)

(***************************************************************************)
(* Tables of graph_solver.py                                               *)
(***************************************************************************)
Directions == {"north", "northeast", "east", "southeast", "south",
               "southwest", "west", "northwest", "center"}

\* the values of the RoomType enum
RoomTypeValues == {"entrance", "main_door", "kitchen", "master_bedroom",
                   "bedroom", "bathroom", "toilet", "pooja_room", "living",
                   "hall", "dining", "study", "store", "balcony"}

OUTDOOR_TYPES == {"garden", "lawn", "car_parking", "carport", "parking",
                  "swimming_pool", "driveway", "deck", "patio", "terrace",
                  "trees", "bore_well", "water_tank"}

_is_outdoor(room_type) == room_type \in OUTDOOR_TYPES

\* RoomType(room_type) when it is an enum value, else the alias mapping,
\* else None
_normalize_room_type(room_type) ==
    IF room_type \in RoomTypeValues THEN room_type
    ELSE IF room_type = "" \/ room_type = None THEN None
    ELSE CASE room_type = "living_room" -> "living"
           [] room_type = "pooja" -> "pooja_room"
           [] OTHER -> None

\* ROOM_SIZES.get(rt, {"width": 4.0, "height": 4.0}): <<width, height>> in
\* units
ROOM_SIZES(rt) ==
    CASE rt = "living" -> <<600, 500>>
      [] rt = "hall" -> <<600, 500>>
      [] rt = "kitchen" -> <<350, 350>>
      [] rt = "master_bedroom" -> <<450, 450>>
      [] rt = "bedroom" -> <<400, 400>>
      [] rt = "bathroom" -> <<220, 200>>
      [] rt = "toilet" -> <<180, 180>>
      [] rt = "pooja_room" -> <<180, 180>>
      [] rt = "dining" -> <<350, 350>>
      [] rt = "entrance" -> <<300, 200>>
      [] rt = "study" -> <<300, 300>>
      [] rt = "balcony" -> <<250, 400>>
      [] OTHER -> <<400, 400>>

\* the keys of VASTU_PREFERENCES
VastuTypes == {"pooja_room", "entrance", "kitchen", "master_bedroom", "living",
               "bedroom", "bathroom", "dining"}

\* VASTU_PREFERENCES: preferred is a list, weight is in tenths
VASTU_PREFERENCES(rt) ==
    CASE rt = "pooja_room" ->
           [preferred |-> <<"northeast">>, acceptable |-> {"north", "east"},
            avoid |-> {"south", "southwest", "west"}, weight |-> 10]
      [] rt = "entrance" ->
           [preferred |-> <<"north", "east", "northeast">>,
            acceptable |-> {"northwest"},
            avoid |-> {"south", "southwest"}, weight |-> 9]
      [] rt = "kitchen" ->
           [preferred |-> <<"southeast">>, acceptable |-> {"northwest", "east"},
            avoid |-> {"north", "northeast", "southwest"}, weight |-> 9]
      [] rt = "master_bedroom" ->
           [preferred |-> <<"southwest">>, acceptable |-> {"south", "west"},
            avoid |-> {"northeast", "north"}, weight |-> 8]
      [] rt = "living" ->
           [preferred |-> <<"north", "east", "northeast">>,
            acceptable |-> {"northwest", "center"},
            avoid |-> {"southwest"}, weight |-> 6]
      [] rt = "bedroom" ->
           [preferred |-> <<"west", "northwest", "southwest">>,
            acceptable |-> {"south"},
            avoid |-> {"northeast"}, weight |-> 6]
      [] rt = "bathroom" ->
           [preferred |-> <<"northwest", "west">>, acceptable |-> {"south"},
            avoid |-> {"northeast", "east", "north"}, weight |-> 7]
      [] rt = "dining" ->
           [preferred |-> <<"east", "west">>, acceptable |-> {"north", "south"},
            avoid |-> {}, weight |-> 5]

\* ADJACENCY_GRAPH: the list of types a room of the type wants to be near
\* (empty for a type that is no key)
ADJACENCY_GRAPH(room_type) ==
    CASE room_type = "kitchen" -> <<"dining", "living">>
      [] room_type = "master_bedroom" -> <<"bathroom">>
      [] room_type = "bedroom" -> <<"bathroom">>
      [] room_type = "living" -> <<"dining", "entrance", "hall">>
      [] room_type = "dining" -> <<"kitchen", "living">>
      [] room_type = "entrance" -> <<"living", "hall">>
      [] room_type = "hall" -> <<"living", "entrance">>
      [] room_type = "pooja_room" -> <<"living", "entrance">>
      [] OTHER -> <<>>

\* OUTDOOR_VASTU_PREFERENCES: the preferred list (empty for a type that is
\* no key; its keys are the outdoor types but "driveway")
HasOutdoorPref(room_type) == room_type \in OUTDOOR_TYPES \ {"driveway"}

OUTDOOR_VASTU_PREFERENCES(room_type) ==
    CASE room_type \in {"garden", "lawn"} -> <<"northeast", "north", "east">>
      [] room_type = "swimming_pool" -> <<"northeast", "north">>
      [] room_type \in {"parking", "car_parking", "carport"} ->
           <<"southeast", "northwest">>
      [] room_type \in {"deck", "patio", "terrace"} -> <<"east", "north">>
      [] room_type = "trees" -> <<"northeast", "north">>
      [] room_type = "bore_well" -> <<"northeast">>
      [] room_type = "water_tank" -> <<"southwest">>
      [] OTHER -> <<>>

(***************************************************************************)
(* PhysicsParams (defaults)                                                *)
(***************************************************************************)
max_iterations == 100
\* time_step = 0.1 = 1 / time_step_inv
time_step_inv == 10
\* damping = 0.8, in tenths
damping10 == 8
\* attraction_strength = 0.5, in tenths
attraction_strength10 == 5
repulsion_strength == 1
vastu_force_strength == 2
boundary_force_strength == 3
\* convergence_threshold = 0.01 m, in units
convergence_threshold == 1
\* ideal_spacing = 1.0 m, in units
ideal_spacing == 100
\* the sweeps of _resolve_overlaps
resolve_max_iterations == 20

(***************************************************************************)
(* geometry_utils.py.  A polygon is a sequence of points; the empty        *)
(* sequence stands for "no polygon" (None or []).                          *)
(***************************************************************************)
\* one edge test of the ray casting loop: does edge p1 -> p2 flip `inside`
RayCrosses(x, y, p1, p2) ==
    /\ y > Min(p1[2], p2[2])
    /\ y <= Max(p1[2], p2[2])
    /\ x <= Max(p1[1], p2[1])
    \* here p1y # p2y; x <= xinters, with
    \* xinters = (y - p1y) * (p2x - p1x) / (p2y - p1y) + p1x, compared
    \* exactly by cross-multiplication
    /\ \/ p1[1] = p2[1]
       \/ IF p2[2] > p1[2]
          THEN (x - p1[1]) * (p2[2] - p1[2]) <= (y - p1[2]) * (p2[1] - p1[1])
          ELSE (x - p1[1]) * (p2[2] - p1[2]) >= (y - p1[2]) * (p2[1] - p1[1])

RECURSIVE RayCast(_, _, _, _)
RayCast(point, polygon, i, inside) ==
    IF i > Len(polygon) THEN inside
    ELSE LET p1 == polygon[i]
             p2 == polygon[(i % Len(polygon)) + 1]
         IN  RayCast(point, polygon, i + 1,
                     IF RayCrosses(point[1], point[2], p1, p2)
                     THEN ~inside ELSE inside)

point_in_polygon(point, polygon) ==
    IF polygon = <<>> THEN TRUE ELSE RayCast(point, polygon, 1, FALSE)

\* the projection of pt on segment a-b, t clamped to [0, 1]
_project_point_to_segment(pt, a, b) ==
    LET v == VSub(b, a)
        l2 == Dot(v, v)
        d == Dot(VSub(pt, a), v)
    IN  IF l2 = 0 THEN a
        ELSE IF d <= 0 THEN a
        ELSE IF d >= l2 THEN b
        ELSE VAdd(a, VScale(v, Quot(d * 1000, l2), 1000))

RECURSIVE NearestOnBoundary(_, _, _, _, _)
NearestOnBoundary(pt, polygon, i, best, min_dist) ==
    IF i > Len(polygon) THEN best
    ELSE LET a == polygon[i]
             b == polygon[(i % Len(polygon)) + 1]
             proj == _project_point_to_segment(pt, a, b)
             d == Norm(VSub(pt, proj))
         IN  IF min_dist < 0 \/ d < min_dist
             THEN NearestOnBoundary(pt, polygon, i + 1, proj, d)
             ELSE NearestOnBoundary(pt, polygon, i + 1, best, min_dist)

\* min_dist < 0 stands for float('inf')
project_point_inside(point, polygon) ==
    IF polygon = <<>> THEN point
    ELSE IF point_in_polygon(point, polygon) THEN point
    ELSE NearestOnBoundary(point, polygon, 1, point, -1)

RECURSIVE ShoelaceSum(_, _, _)
\* which = 0: sum of cross; 1: sum of (xi + xj) * cross; 2: (yi + yj) * cross
ShoelaceSum(polygon, i, which) ==
    IF i > Len(polygon) THEN 0
    ELSE LET a == polygon[i]
             b == polygon[(i % Len(polygon)) + 1]
             cross == a[1] * b[2] - b[1] * a[2]
         IN  (CASE which = 0 -> cross
                [] which = 1 -> (a[1] + b[1]) * cross
                [] OTHER -> (a[2] + b[2]) * cross)
             + ShoelaceSum(polygon, i + 1, which)

RECURSIVE CoordSum(_, _, _)
CoordSum(polygon, i, k) ==
    IF i > Len(polygon) THEN 0 ELSE polygon[i][k] + CoordSum(polygon, i + 1, k)

\* np.mean(polygon, axis=0)
PolygonMean(polygon) ==
    <<Quot(CoordSum(polygon, 1, 1), Len(polygon)),
      Quot(CoordSum(polygon, 1, 2), Len(polygon))>>

calculate_polygon_centroid(polygon) ==
    IF Len(polygon) = 0 THEN Zero2
    ELSE LET area2 == ShoelaceSum(polygon, 1, 0)
         IN  IF area2 = 0 THEN PolygonMean(polygon)
             ELSE <<Quot(ShoelaceSum(polygon, 1, 1) * (IF area2 < 0 THEN -1 ELSE 1),
                         3 * Abs(area2)),
                    Quot(ShoelaceSum(polygon, 1, 2) * (IF area2 < 0 THEN -1 ELSE 1),
                         3 * Abs(area2))>>

\* twice the polygon area, in square units
PolygonArea2(polygon) ==
    IF Len(polygon) < 3 THEN 0 ELSE Abs(ShoelaceSum(polygon, 1, 0))

RECURSIVE Perimeter(_, _)
Perimeter(polygon, i) ==
    IF i > Len(polygon) THEN 0
    ELSE Norm(VSub(polygon[i], polygon[(i % Len(polygon)) + 1]))
         + Perimeter(polygon, i + 1)

\* area / s with s = perimeter / 2, i.e. (2 * area) / perimeter
calculate_polygon_inradius(polygon) ==
    IF Perimeter(polygon, 1) <= 0 THEN 0
    ELSE Quot(PolygonArea2(polygon), Perimeter(polygon, 1))

(***************************************************************************)
(* Requests                                                                *)
(***************************************************************************)
\* seed: Optional[int] = None
NoSeed == -1

\* a room of a request (the name, which solve only copies, is left out)
RoomOf(i, type) == [id |-> CASE i = 1 -> "r1" [] i = 2 -> "r2" [] i = 3 -> "r3"
                                 [] OTHER -> "r4",
                    type |-> type, direction |-> "north"]

\* the room lists of the requests
NoRooms == <<>>
Living == <<RoomOf(1, "living")>>
Garden == <<RoomOf(1, "garden")>>
LivingKitchen == <<RoomOf(1, "living"), RoomOf(2, "kitchen")>>
KitchenDining == <<RoomOf(1, "kitchen"), RoomOf(2, "dining")>>
LivingGarden == <<RoomOf(1, "living"), RoomOf(2, "garden")>>
LivingBathroom == <<RoomOf(1, "living"), RoomOf(2, "bathroom")>>
FourLiving == <<RoomOf(1, "living"), RoomOf(2, "living"), RoomOf(3, "living"),
               RoomOf(4, "living")>>

\* plot_width, plot_length of the requests: a plot smaller than a room, the
\* plot of the triangle test and the default plot
SmallPlot == <<4 * Scale, 4 * Scale>>
MediumPlot == <<10 * Scale, 6 * Scale>>
DefaultPlot == <<30 * Scale, 30 * Scale>>

\* constraints["plot_polygon"] of the requests: an L-shaped polygon, a
\* polygon of two vertices, or none
LPolygon == << <<0, 0>>, <<10 * Scale, 0>>, <<10 * Scale, 3 * Scale>>,
               <<5 * Scale, 3 * Scale>>, <<5 * Scale, 6 * Scale>>,
               <<0, 6 * Scale>> >>
TwoPolygon == << <<0, 0>>, <<10 * Scale, 6 * Scale>> >>

\* request.constraints: given is the truth value of the dict (None and {}
\* are false); circle is "absent", "valid" or "invalid"
Constraints(polygon, circle) ==
    [given |-> polygon # <<>> \/ circle # "absent", plot_polygon |-> polygon,
     circle |-> circle, house_facing |-> ""]
NoConstraints == Constraints(<<>>, "absent")

Seeds == {NoSeed} \cup (0..MaxSeed)

RequestsOf(lists, plots, shapes, constraints) ==
    {[rooms |-> rs, plot_width |-> ps[1], plot_length |-> ps[2],
      plot_shape |-> sh, constraints |-> c, outdoor_fixtures |-> {},
      seed |-> sd] :
        rs \in lists, ps \in plots, sh \in shapes, c \in constraints,
        sd \in Seeds}

\* the requests of the model, by plot shape (the values normalize_plot_shape
\* lets through; "l-shaped" stands for the ones the solver treats as
\* rectangular)
RectangularRequests ==
    RequestsOf({NoRooms, Living, Garden, LivingKitchen, KitchenDining,
                LivingGarden},
               {SmallPlot, DefaultPlot}, {"rectangular"}, {NoConstraints})
    \cup RequestsOf({Living}, {MediumPlot}, {"l-shaped"}, {NoConstraints})
TriangularRequests ==
    RequestsOf({Living, LivingKitchen, LivingGarden}, {SmallPlot, MediumPlot},
               {"triangular"}, {NoConstraints})
CircularRequests ==
    RequestsOf({Living, LivingKitchen}, {MediumPlot}, {"circular"},
               {NoConstraints, Constraints(<<>>, "valid")})
    \cup RequestsOf({Living, LivingKitchen}, {MediumPlot}, {"rectangular"},
                    {Constraints(<<>>, "invalid")})
IrregularRequests ==
    RequestsOf({Living, LivingKitchen}, {MediumPlot}, {"irregular"},
               {NoConstraints, Constraints(LPolygon, "absent"),
                Constraints(TwoPolygon, "absent"), Constraints(<<>>, "valid")})

\* requests that name a room of an indoor type in outdoor_fixtures, by id
FixtureRequests ==
    {[r EXCEPT !.outdoor_fixtures = {"r2"}] :
        r \in RequestsOf({LivingBathroom}, {DefaultPlot}, {"rectangular"},
                         {NoConstraints})}

\* four rooms on a plot smaller than any of them
CrowdedRequests ==
    RequestsOf({FourLiving}, {SmallPlot}, {"rectangular"}, {NoConstraints})

\* an indoor and an outdoor room on a plot that holds each of them but
\* not both side by side
TightRequests ==
    RequestsOf({LivingGarden}, {MediumPlot}, {"rectangular"}, {NoConstraints})

\* four rooms on a plot that holds four of them with little room to spare
PackedPlot == <<12 * Scale, 10 * Scale>>
PackedRequests ==
    RequestsOf({FourLiving}, {PackedPlot}, {"rectangular"}, {NoConstraints})

\* three rooms on a plot that holds any two of them only when they overlap
LivingKitchenDining == <<RoomOf(1, "living"), RoomOf(2, "kitchen"),
                         RoomOf(3, "dining")>>
NarrowPlot == <<8 * Scale, 8 * Scale>>
NarrowRequests ==
    RequestsOf({LivingKitchenDining}, {NarrowPlot}, {"rectangular"},
               {NoConstraints})

\* two rooms on a circular plot whose circle holds each of them
RoundPlot == <<10 * Scale, 10 * Scale>>
RoundRequests ==
    RequestsOf({LivingKitchen}, {RoundPlot}, {"circular"}, {NoConstraints})

Requests == RectangularRequests \cup TriangularRequests
            \cup CircularRequests \cup IrregularRequests
            \cup FixtureRequests \cup CrowdedRequests \cup TightRequests
            \cup PackedRequests \cup NarrowRequests \cup RoundRequests

(***************************************************************************)
(* State                                                                   *)
(***************************************************************************)
VARIABLES
    \* the process-wide numpy generator
    rng,
    \* the client of the placer: its request, the calls made so far and the
    \* response of its previous call
    request, calls, prev_response,
    \* GraphBasedLayoutSolver: control location of solve_floor_plan / solve
    pc,
    \* self.plot_shape, self.plot_polygon (<<>> is None), self.plot_circle
    plot_shape, plot_polygon, plot_circle,
    \* self.fixed_nodes
    fixed_nodes,
    \* self.positions, self.velocities, self.dimensions (dicts keyed by room
    \* id) and the insertion order of their keys
    positions, velocities, dimensions, room_order,
    \* the graph of the running simulation and the local G of solve
    sim_graph, G,
    \* locals of solve
    warnings, converged, iterations,
    \* loop state of _run_simulation and of _resolve_overlaps
    sim_iteration, sweep, pair, overlaps_resolved, overlap_count,
    \* which part of solve is running: 1 and 2 are the phases, 0 the run
    \* with neither indoor nor outdoor rooms, 3 the final overlap resolution
    phase,
    \* what solve returned: the response, or the raised error
    response, raised,
    \* history: the positions the indoor rooms had when fixed_nodes was set
    frozen,
    \* history: some _run_simulation of this solve returned at the iteration
    \* cap
    capped

placer_vars == <<rng, request, calls, prev_response, pc, plot_shape,
                 plot_polygon, plot_circle, fixed_nodes, positions,
                 velocities, dimensions, room_order, sim_graph, G, warnings,
                 converged, iterations, sim_iteration, sweep, pair,
                 overlaps_resolved, overlap_count, phase, response, raised,
                 frozen, capped>>

\* self.plot_width, self.plot_length: set by __init__ from the request
plot_width == request.plot_width
plot_length == request.plot_length

\* the empty dict / the empty graph
EmptyMap == [k \in {} |-> Zero2]
NoGraph == [nodes |-> <<>>, edges |-> {}]
NoCircle == [set |-> FALSE, center |-> Zero2, radius |-> 0]
NoResponse == [rooms |-> <<>>, score |-> -1, iterations |-> -1,
               converged |-> FALSE, warnings |-> <<>>]

\* the four corners of a rectangle centred at pos, in the order of the code
Corners(pos, width, height) ==
    << <<pos[1] - width \div 2, pos[2] - height \div 2>>,
       <<pos[1] + width \div 2, pos[2] - height \div 2>>,
       <<pos[1] + width \div 2, pos[2] + height \div 2>>,
       <<pos[1] - width \div 2, pos[2] + height \div 2>> >>

(***************************************************************************)
(* The state of run_sa (sa_solver_impl.py)                                 *)
(***************************************************************************)
VARIABLES
    \* the arguments of run_sa: req, phi (the room types of the PhiGrid),
    \* params, initial_state.rooms; and whether rtree can be imported
    sa_req, phi_room_types, sa_params, initial_rooms, use_rtree,
    \* the RoomState objects by identity: heap[k] is the object k; the lists
    \* below hold identities
    heap,
    \* control location of run_sa and its locals
    sa_pc, current, current_energy, best, best_energy, candidate,
    candidate_energy, temperature, iteration, stall_count,
    \* whether the candidate of the iteration was taken; the returned rooms
    accepted, result,
    \* history of the run: the least energy computed for a current layout,
    \* the objects of best as they were stored, whether best improved in the
    \* running iteration, the number of completed iterations in a row
    \* without improvement of best, and the polygons of the current layout
    \* that had the least energy
    min_energy, best_stored, improved, quiet, min_layout

sa_vars == <<sa_req, phi_room_types, sa_params, initial_rooms, use_rtree,
             heap, sa_pc, current, current_energy, best, best_energy,
             candidate, candidate_energy, temperature, iteration,
             stall_count, accepted, result, min_energy, best_stored,
             improved, quiet, min_layout>>

(***************************************************************************)
(* The state of the library classes exercised on their own:                *)
(* constraint_solver.SpatialIndex, graph_solver_impl.SpatialIndex as       *)
(* deterministic_local_improve uses it, and geometry_utils.point_in_polygon*)
(***************************************************************************)
VARIABLES
    \* constraint_solver.SpatialIndex: self.grid, a map from the cells in
    \* use to the list of the room indices appended; the argument and the
    \* returned set of the last query_potential_overlaps
    ci_grid, ci_room, ci_candidates,
    \* history: the last operation called on the index, and the pairs of
    \* index and rectangle inserted since the last clear
    ci_op, ci_inserted,
    \* deterministic_local_improve: the list improved, the SpatialIndex
    \* built over it, the position of the loop over the rooms, and the set
    \* query_overlaps returned for the room of the loop
    ix_pc, ix_rooms, ix_index, ix_i, ix_overlaps,
    \* a call of point_in_polygon: the arguments and the returned value
    pip_pc, pip_point, pip_polygon, pip_inside,
    \* a PhiGrid: the plot (its bounds), room_types and params.resolution
    \* given to the constructor, self._cache, and the arguments and the
    \* returned value of the last sample_point
    pg_plot, pg_room_types, pg_resolution, pg_cache, pg_key, pg_val,
    \* a call of one of the other functions: the arguments and the returned
    \* value
    fn_pc, fn_in, fn_out

ci_vars == <<ci_grid, ci_room, ci_candidates, ci_op, ci_inserted>>
ix_vars == <<ix_pc, ix_rooms, ix_index, ix_i, ix_overlaps>>
pip_vars == <<pip_pc, pip_point, pip_polygon, pip_inside>>
pg_vars == <<pg_plot, pg_room_types, pg_resolution, pg_cache, pg_key, pg_val>>
fn_vars == <<fn_pc, fn_in, fn_out>>
lib_vars == <<ci_vars, ix_vars, pip_vars, pg_vars, fn_vars>>

\* the library classes before they are used
CiIdle ==
    /\ ci_grid = << >> /\ ci_room = [x |-> 0, y |-> 0, width |-> 0, height |-> 0]
    /\ ci_candidates = {} /\ ci_op = "new" /\ ci_inserted = << >>

IxIdle ==
    /\ ix_pc = "idle" /\ ix_rooms = << >>
    /\ ix_index = [bounds |-> << >>, use_rtree |-> FALSE]
    /\ ix_i = 0 /\ ix_overlaps = {}

PipIdle ==
    /\ pip_pc = "idle" /\ pip_point = <<0, 0>> /\ pip_polygon = << >>
    /\ pip_inside = FALSE

PgIdle ==
    /\ pg_plot = <<0, 0, 0, 0>> /\ pg_room_types = << >> /\ pg_resolution = 0
    /\ pg_cache = << >> /\ pg_key = << >> /\ pg_val = 0

FnIdle == fn_pc = "idle" /\ fn_in = << >> /\ fn_out = << >>

LibIdle == CiIdle /\ IxIdle /\ PipIdle /\ PgIdle /\ FnIdle

\* run_sa before it is called
RefinerIdle ==
    /\ sa_pc = "idle"
    /\ current = <<>> /\ best = <<>> /\ candidate = <<>> /\ result = <<>>
    /\ current_energy = 0 /\ best_energy = 0 /\ candidate_energy = 0
    /\ temperature = 0 /\ iteration = 0 /\ stall_count = 0
    /\ accepted = FALSE
    /\ min_energy = 0 /\ best_stored = <<>> /\ improved = FALSE /\ quiet = 0
    /\ min_layout = <<>>

\* no call of run_sa is made
NoRefinement ==
    /\ sa_req = [has_area |-> FALSE, area |-> <<>>, adjacency |-> {},
                 plot |-> <<0, 0, 0, 0>>]
    /\ phi_room_types = <<>>
    /\ sa_params = [max_iters |-> 0, stall_patience |-> 0,
                    local_repair_interval |-> 1, cooling_step |-> 1]
    /\ initial_rooms = <<>>
    /\ use_rtree = FALSE
    /\ heap = <<>>
    /\ RefinerIdle

(***************************************************************************)
(* Polygon and circle helpers of the solver                                *)
(***************************************************************************)
_point_in_polygon(point) ==
    IF plot_polygon = <<>> THEN TRUE ELSE point_in_polygon(point, plot_polygon)

RECURSIVE ProjectFirstOutsideCorner(_, _, _)
ProjectFirstOutsideCorner(pos, corners, i) ==
    IF i > Len(corners) THEN pos
    ELSE IF ~point_in_polygon(corners[i], plot_polygon)
         THEN LET proj == project_point_inside(corners[i], plot_polygon)
                  corner_offset == VSub(corners[i], pos)
              IN  VSub(proj, corner_offset)
         ELSE ProjectFirstOutsideCorner(pos, corners, i + 1)

\* the first corner found outside is projected on the boundary and the
\* centre shifted with it; the other corners are not looked at again
_project_inside_polygon(pos, width, height) ==
    IF plot_polygon = <<>> THEN pos
    ELSE ProjectFirstOutsideCorner(pos, Corners(pos, width, height), 1)

_project_inside_circle(pos, width, height) ==
    IF ~plot_circle.set THEN pos
    ELSE LET center == plot_circle.center
             radius == plot_circle.radius
             half_diag == Isqrt((width \div 2) * (width \div 2)
                                + (height \div 2) * (height \div 2))
             max_center_dist == Max(0, radius - half_diag)
             delta == VSub(pos, center)
             dist == Norm(delta)
         IN  IF dist > max_center_dist /\ dist > 0
             THEN VAdd(center, VScale(delta, max_center_dist, dist))
             ELSE pos

\* corner[0] / plot_width + corner[1] / plot_length - 1.0, in thousandths
HypotenuseVal(corner) ==
    Quot(corner[1] * 1000, plot_width) + Quot(corner[2] * 1000, plot_length)
    - 1000

\* alpha * grad with alpha = val / dot(grad, grad), grad = (1/W, 1/L):
\* val * W * L^2 / (W^2 + L^2) and val * L * W^2 / (W^2 + L^2)
HypotenuseShift(val) ==
    LET w10 == plot_width \div 10
        l10 == plot_length \div 10
        den == w10 * w10 + l10 * l10
    IN  <<Quot(Quot(val * plot_width, 1000) * Quot(l10 * l10 * 1000, den), 1000),
          Quot(Quot(val * plot_length, 1000) * Quot(w10 * w10 * 1000, den), 1000)>>

\* the triangular clamp shared by _initialize_positions, _physics_step and
\* _resolve_overlaps: left/top bounds, then the (+w/2, +h/2) corner is
\* projected on the hypotenuse
TriangularClamp(p, width, height) ==
    LET pos == <<Max(p[1], width \div 2), Max(p[2], height \div 2)>>
        corner == VAdd(pos, <<width \div 2, height \div 2>>)
        val == HypotenuseVal(corner)
    IN  IF val > 0
        THEN VSub(VSub(corner, HypotenuseShift(val)),
                  <<width \div 2, height \div 2>>)
        ELSE pos

\* the position as it is, without the clip
RectangularUnclamped(pos, width, height) == pos

\* the rectangular clamp (np.clip on both axes)
RectangularClamp(pos, width, height) ==
    <<Clip(pos[1], width \div 2, plot_width - width \div 2),
      Clip(pos[2], height \div 2, plot_length - height \div 2)>>

(***************************************************************************)
(* Initialization                                                          *)
(***************************************************************************)
\* dict[k] = v
Put(d, k, v) == (k :> v) @@ d

\* spec * factor, rounded as round(.., 2); factor is in thousandths; sizes
\* are kept on the even grid so that width/2 is exact
RoundDim(spec, factor) == 2 * ((spec * factor + 1000) \div 2000)

\* width and height of a room of the type: two draws of the generator.
\* Gives <<width, height, generator state after the draws>>.
_get_room_dimensions(room_type, s) ==
    LET specs == ROOM_SIZES(_normalize_room_type(room_type))
        s1 == RandNext(s)
        s2 == RandNext(s1)
    IN  <<RoundDim(specs[1], Uniform(s1, 950, 1050)),
          RoundDim(specs[2], Uniform(s2, 950, 1050)), s2>>

PlotCenter == <<plot_width \div 2, plot_length \div 2>>

\* direction_map, in quarters of the plot
DirectionQuarters(d) ==
    CASE d = "northeast" -> <<1, 1>>
      [] d = "north" -> <<2, 1>>
      [] d = "northwest" -> <<3, 1>>
      [] d = "east" -> <<1, 2>>
      [] d = "center" -> <<2, 2>>
      [] d = "west" -> <<3, 2>>
      [] d = "southeast" -> <<1, 3>>
      [] d = "south" -> <<2, 3>>
      [] d = "southwest" -> <<3, 3>>

\* the preferred list of a type: the indoor table first, the outdoor table
\* when the indoor one gives nothing
PreferredOf(room_type) ==
    IF _normalize_room_type(room_type) \in VastuTypes
    THEN VASTU_PREFERENCES(_normalize_room_type(room_type)).preferred
    ELSE IF HasOutdoorPref(room_type) THEN OUTDOOR_VASTU_PREFERENCES(room_type)
    ELSE <<>>

\* "Final safety" of the triangular mapping
ProjectedTarget(target) ==
    IF ~point_in_polygon(target, plot_polygon)
    THEN project_point_inside(target, plot_polygon)
    ELSE target

\* angle_map of the triangular mapping as <<cos, sin>> in thousandths
AngleCosSin(d) ==
    CASE d = "east" -> <<1000, 0>>
      [] d = "northeast" -> <<707, 707>>
      [] d = "north" -> <<0, 1000>>
      [] d = "northwest" -> <<-707, 707>>
      [] d = "west" -> <<-1000, 0>>
      [] d = "southwest" -> <<-707, -707>>
      [] d = "south" -> <<0, -1000>>
      [] d = "southeast" -> <<707, -707>>

\* the point at safe_radius from the centroid in the direction d, projected
\* back on the polygon when it falls outside
TriangularTarget(centroid, safe_radius, d) ==
    IF d = "center" THEN centroid
    ELSE ProjectedTarget(VAdd(centroid,
                              <<Quot(safe_radius * AngleCosSin(d)[1], 1000),
                                Quot(safe_radius * AngleCosSin(d)[2], 1000)>>))

_get_vastu_target_position_triangular(room_type, preferred) ==
    IF Len(plot_polygon) < 3 THEN PlotCenter
    ELSE IF preferred = <<>> THEN calculate_polygon_centroid(plot_polygon)
    ELSE TriangularTarget(calculate_polygon_centroid(plot_polygon),
                          Max(Scale \div 10,
                              Quot(calculate_polygon_inradius(plot_polygon) * 7, 10)),
                          preferred[1])

\* the entrance follows constraints["house_facing"] when it names a
\* direction: the facing is prepended, without duplicate
WithFacing(rt, facing, preferred) ==
    IF rt = "entrance" /\ facing \in Directions
    THEN <<facing>> \o SelectSeq(preferred, LAMBDA d : d # facing)
    ELSE preferred

\* direction_map.get(preferred[0]), the plot centre without preference
DirectionTarget(preferred) ==
    IF preferred # <<>>
    THEN <<(plot_width * DirectionQuarters(preferred[1])[1]) \div 4,
           (plot_length * DirectionQuarters(preferred[1])[2]) \div 4>>
    ELSE PlotCenter

_get_vastu_target_position(room_type) ==
    IF _normalize_room_type(room_type) \notin VastuTypes
       /\ ~HasOutdoorPref(room_type)
    THEN PlotCenter
    ELSE IF plot_shape = "triangular"
    THEN _get_vastu_target_position_triangular(room_type, PreferredOf(room_type))
    ELSE DirectionTarget(WithFacing(_normalize_room_type(room_type),
                                    request.constraints.house_facing,
                                    PreferredOf(room_type)))

\* the first position of a room: the target plus the offset, brought inside
\* by the rule of the plot shape
FirstPosition(p, width, height) ==
    IF plot_shape = "irregular" /\ plot_polygon # <<>>
    THEN _project_inside_polygon(p, width, height)
    ELSE IF plot_shape = "triangular"
    THEN TriangularClamp(p, width, height)
    ELSE RectangularClamp(p, width, height)

\* the two draws of the offset, np.random.uniform(-2, 2, 2), after state s
OffsetDraw(s) == <<Uniform(RandNext(s), -2 * Scale, 2 * Scale),
                   Uniform(RandNext(RandNext(s)), -2 * Scale, 2 * Scale)>>

\* the dicts after one room is entered with its dimensions and position
RoomEntered(st, room_id, width, height, pos, s) ==
    [positions |-> Put(st.positions, room_id, pos),
     velocities |-> Put(st.velocities, room_id, Zero2),
     dimensions |-> Put(st.dimensions, room_id, <<width, height>>),
     room_order |-> IF room_id \in DOMAIN st.positions THEN st.room_order
                    ELSE Append(st.room_order, room_id),
     rng |-> s]

\* the body of the loop of _initialize_positions for one room, dims being
\* what _get_room_dimensions gave; st carries positions, velocities,
\* dimensions, the key order and the generator
InitializeWith(st, room, dims) ==
    RoomEntered(st, room.id, dims[1], dims[2],
                FirstPosition(VAdd(_get_vastu_target_position(room.type),
                                   OffsetDraw(dims[3])),
                              dims[1], dims[2]),
                RandNext(RandNext(dims[3])))

InitializeRoom(st, room) ==
    InitializeWith(st, room, _get_room_dimensions(room.type, st.rng))

RECURSIVE InitializeFrom(_, _, _)
InitializeFrom(st, rooms, i) ==
    IF i > Len(rooms) THEN st
    ELSE InitializeFrom(InitializeRoom(st, rooms[i]), rooms, i + 1)

\* _initialize_positions(rooms), from the current solver state
_initialize_positions(rooms) ==
    InitializeFrom([positions |-> positions, velocities |-> velocities,
                    dimensions |-> dimensions, room_order |-> room_order,
                    rng |-> rng], rooms, 1)

(***************************************************************************)
(* Graph construction.  A graph is [nodes, edges]: nodes maps a room id to *)
(* its attributes, edges is a set of [ends |-> {u, v}, weight |-> w].      *)
(***************************************************************************)
\* G.add_edge(u, v, weight=w): an existing edge u-v gets the new weight
AddEdge(edges, u, v, w) ==
    {e \in edges : e.ends # {u, v}} \cup {[ends |-> {u, v}, weight |-> w]}

\* weight = 1.0, or 2.0 for the critical adjacencies as seen from the room
\* whose adjacency list is being walked
EdgeWeight(room_type, adjacent_type) ==
    IF \/ (room_type = "kitchen" /\ adjacent_type = "dining")
       \/ (room_type = "master_bedroom" /\ adjacent_type = "bathroom")
    THEN 2 ELSE 1

RECURSIVE EdgesOther(_, _, _, _, _)
\* the innermost loop: every other_room of the adjacent type
EdgesOther(edges, rooms, i, adjacent_type, j) ==
    IF j > Len(rooms) THEN edges
    ELSE EdgesOther(
           IF /\ rooms[j].type = adjacent_type
              /\ rooms[j].id # rooms[i].id
              /\ ~_is_outdoor(rooms[j].type)
           THEN AddEdge(edges, rooms[i].id, rooms[j].id,
                        EdgeWeight(rooms[i].type, adjacent_type))
           ELSE edges,
           rooms, i, adjacent_type, j + 1)

RECURSIVE EdgesType(_, _, _, _)
\* the loop over ADJACENCY_GRAPH[room_type]
EdgesType(edges, rooms, i, k) ==
    IF k > Len(ADJACENCY_GRAPH(rooms[i].type)) THEN edges
    ELSE EdgesType(EdgesOther(edges, rooms, i,
                              ADJACENCY_GRAPH(rooms[i].type)[k], 1),
                   rooms, i, k + 1)

RECURSIVE EdgesRoom(_, _, _)
\* the outer loop over the rooms
EdgesRoom(edges, rooms, i) ==
    IF i > Len(rooms) THEN edges
    ELSE EdgesRoom(
           IF ADJACENCY_GRAPH(rooms[i].type) # <<>> /\ ~_is_outdoor(rooms[i].type)
           THEN EdgesType(edges, rooms, i, 1)
           ELSE edges,
           rooms, i + 1)

_build_adjacency_graph(rooms) ==
    [nodes |-> [id \in {rooms[i].id : i \in 1..Len(rooms)} |->
                  LET last == CHOOSE i \in 1..Len(rooms) :
                                 /\ rooms[i].id = id
                                 /\ \A j \in 1..Len(rooms) :
                                       rooms[j].id = id => j <= i
                  IN  [room_type |-> rooms[last].type,
                       is_outdoor |-> _is_outdoor(rooms[last].type)]],
     edges |-> EdgesRoom({}, rooms, 1)]

has_edge(graph, u, v) == \E e \in graph.edges : e.ends = {u, v}

EdgeWeightOf(graph, u, v) ==
    (CHOOSE e \in graph.edges : e.ends = {u, v}).weight

(***************************************************************************)
(* Forces.  A force is a 2-vector in units per step.                       *)
(***************************************************************************)
_calculate_attractive_force(room1_id, room2_id, weight) ==
    LET delta == VSub(positions[room2_id], positions[room1_id])
        distance == Norm(delta)
        d1 == dimensions[room1_id]
        d2 == dimensions[room2_id]
        ideal_distance == (Max(d1[1], d2[1]) + Max(d1[2], d2[2])) \div 2
                          + ideal_spacing
        force_magnitude ==
            Quot(attraction_strength10 * weight * (distance - ideal_distance), 10)
    IN  IF distance < Scale \div 10 THEN Zero2
        ELSE VScale(delta, force_magnitude, distance)

\* gives <<force, generator state>>: two draws when the centres coincide
_calculate_repulsive_force(room1_id, room2_id, s) ==
    LET delta == VSub(positions[room1_id], positions[room2_id])
        distance == Norm(delta)
        s1 == RandNext(s)
        s2 == RandNext(s1)
    IN  IF distance < Scale \div 10
        THEN << <<Uniform(s1, -5 * Scale, 5 * Scale),
                  Uniform(s2, -5 * Scale, 5 * Scale)>>, s2 >>
        ELSE << VScale(delta,
                       Quot(repulsion_strength * 5 * Scale * Scale, distance),
                       distance), s >>

\* the weight of the preference in tenths; 0.4 for the outdoor default
VastuWeight(rt) == IF rt \in VastuTypes THEN VASTU_PREFERENCES(rt).weight ELSE 4

\* direction * force_magnitude, nothing within half a metre of the target
PullAlong(delta, distance, weight10) ==
    IF distance < Scale \div 2 THEN Zero2
    ELSE VScale(delta, Quot(vastu_force_strength * weight10 * Scale, 10),
                distance)

PullToward(delta, weight10) == PullAlong(delta, Norm(delta), weight10)

_calculate_vastu_force(room_id, room_type) ==
    IF _normalize_room_type(room_type) \notin VastuTypes /\ ~_is_outdoor(room_type)
    THEN Zero2
    ELSE PullToward(VSub(_get_vastu_target_position(room_type), positions[room_id]),
                    VastuWeight(_normalize_room_type(room_type)))

\* self._project_point_to_edge: <<projection, distance>>
_project_point_to_edge(point, edge_start, edge_end) ==
    LET edge_vec == VSub(edge_end, edge_start)
        edge_len_sq == Dot(edge_vec, edge_vec)
        d == Dot(VSub(point, edge_start), edge_vec)
        projection ==
            IF edge_len_sq = 0 THEN edge_start
            ELSE IF d <= 0 THEN edge_start
            ELSE IF d >= edge_len_sq THEN edge_end
            ELSE VAdd(edge_start, VScale(edge_vec, Quot(d * 1000, edge_len_sq), 1000))
    IN  <<projection, Norm(VSub(point, projection))>>

RECURSIVE NearestEdge(_, _, _, _)
\* the edge loop of the irregular boundary force for one outside corner:
\* acc = <<min_dist, best_normal>>, min_dist < 0 standing for float('inf');
\* the normal is in thousandths and turned toward the mean of the vertices
NearestEdge(corner, polygon, i, acc) ==
    IF i > Len(polygon) THEN acc
    ELSE LET edge_start == polygon[i]
             edge_end == polygon[(i % Len(polygon)) + 1]
             pd == _project_point_to_edge(corner, edge_start, edge_end)
             edge_vec == VSub(edge_end, edge_start)
             n0 == VScale(<<-edge_vec[2], edge_vec[1]>>, 1000,
                          Max(1, Norm(edge_vec)))
             normal == IF Dot(n0, VSub(PolygonMean(polygon), pd[1])) < 0
                       THEN VNeg(n0) ELSE n0
         IN  NearestEdge(corner, polygon, i + 1,
                         IF acc[1] < 0 \/ pd[2] < acc[1]
                         THEN <<pd[2], normal>> ELSE acc)

RECURSIVE LastOutsideCorner(_, _, _)
\* min_dist and best_normal are (re)bound only inside the loop body of a
\* corner that is outside: after the loop they hold the values of the last
\* such corner.  found = FALSE: they were never bound.
LastOutsideCorner(corners, i, acc) ==
    IF i > Len(corners) THEN acc
    ELSE LastOutsideCorner(
           corners, i + 1,
           IF ~_point_in_polygon(corners[i])
           THEN LET ne == NearestEdge(corners[i], plot_polygon, 1, <<-1, Zero2>>)
                IN  [found |-> TRUE, min_dist |-> ne[1], best_normal |-> ne[2]]
           ELSE acc)

IrregularBinding(room_id) ==
    LastOutsideCorner(
        Corners(positions[room_id], dimensions[room_id][1], dimensions[room_id][2]),
        1, [found |-> FALSE, min_dist |-> 0, best_normal |-> Zero2])

\* the irregular branch reads min_dist and best_normal after the loop; with
\* every corner inside they are unbound and the read raises
\* UnboundLocalError
BoundaryForceRaises(room_id) ==
    /\ plot_shape = "irregular" /\ plot_polygon # <<>>
    /\ ~IrregularBinding(room_id).found

RECURSIVE CircleOverflow(_, _, _)
CircleOverflow(corners, i, force) ==
    IF i > Len(corners) THEN force
    ELSE LET delta == VSub(corners[i], plot_circle.center)
             dist == Norm(delta)
             overflow == dist - plot_circle.radius
         IN  CircleOverflow(
               corners, i + 1,
               IF overflow > 0
               THEN VSub(force, VScale(delta, boundary_force_strength * overflow,
                                       Max(1, dist)))
               ELSE force)

\* best_normal * min_dist * boundary_force_strength
InwardForce(b) ==
    VScale(b.best_normal, boundary_force_strength * b.min_dist, 1000)

_calculate_boundary_force(room_id) ==
    LET pos == positions[room_id]
        width == dimensions[room_id][1]
        height == dimensions[room_id][2]
    IN  IF plot_shape = "irregular" /\ plot_polygon # <<>>
        THEN InwardForce(IrregularBinding(room_id))
        ELSE IF plot_shape = "circular" /\ plot_circle.set
        THEN CircleOverflow(Corners(pos, width, height), 1, Zero2)
        ELSE IF plot_shape = "triangular"
        THEN LET f1 == <<IF pos[1] - width \div 2 < 0
                         THEN boundary_force_strength * 5 * Abs(pos[1] - width \div 2)
                         ELSE 0,
                         IF pos[2] - height \div 2 < 0
                         THEN boundary_force_strength * 5 * Abs(pos[2] - height \div 2)
                         ELSE 0>>
                 val == HypotenuseVal(VAdd(pos, <<width \div 2, height \div 2>>))
             IN  IF val > 0
                 THEN VSub(f1,
                        <<Quot(boundary_force_strength * 5 * val * Max(width, height),
                               10 * plot_width),
                          Quot(boundary_force_strength * 5 * val * Max(width, height),
                               10 * plot_length)>>)
                 ELSE f1
        ELSE <<(IF pos[1] - width \div 2 < 0
                THEN boundary_force_strength * Abs(pos[1] - width \div 2) ELSE 0)
               - (IF pos[1] + width \div 2 > plot_width
                  THEN boundary_force_strength * (pos[1] + width \div 2 - plot_width)
                  ELSE 0),
               (IF pos[2] - height \div 2 < 0
                THEN boundary_force_strength * Abs(pos[2] - height \div 2) ELSE 0)
               - (IF pos[2] + height \div 2 > plot_length
                  THEN boundary_force_strength * (pos[2] + height \div 2 - plot_length)
                  ELSE 0)>>

\* the sum of the attractive forces on room r over the edges of the graph:
\* an edge (room1, room2) adds force to room1 and subtracts it from room2,
\* and the force of (room2, room1) is the negation of that of (room1, room2)
RECURSIVE AttractiveOn(_, _, _)
AttractiveOn(graph, r, i) ==
    IF i > Len(room_order) THEN Zero2
    ELSE LET o == room_order[i]
         IN  VAdd(IF o # r /\ has_edge(graph, r, o)
                  THEN _calculate_attractive_force(r, o, EdgeWeightOf(graph, r, o))
                  ELSE Zero2,
                  AttractiveOn(graph, r, i + 1))

\* the pairs (i, j), i < j, of room_ids in the order of the nested loops
PairsOf(n) ==
    LET RECURSIVE From(_, _)
        From(i, j) == IF i >= n THEN <<>>
                      ELSE IF j > n THEN From(i + 1, i + 2)
                      ELSE <<<<i, j>>>> \o From(i, j + 1)
    IN  From(1, 2)

\* step 2 of _calculate_all_forces for one pair; acc = [forces, rng]
RepulsePair(graph, acc, room1_id, room2_id) ==
    IF has_edge(graph, room1_id, room2_id) THEN acc
    ELSE LET is_outdoor_1 == graph.nodes[room1_id].is_outdoor
             is_outdoor_2 == graph.nodes[room2_id].is_outdoor
             fr == _calculate_repulsive_force(room1_id, room2_id, acc.rng)
             force == fr[1]
             f == acc.forces
         IN  [rng |-> fr[2],
              forces |->
                IF is_outdoor_1 /\ ~is_outdoor_2
                THEN [f EXCEPT ![room1_id] = VAdd(@, force)]
                ELSE IF is_outdoor_2 /\ ~is_outdoor_1
                THEN [f EXCEPT ![room2_id] = VSub(@, force)]
                ELSE [f EXCEPT ![room1_id] = VAdd(@, force),
                               ![room2_id] = VSub(@, force)]]

RECURSIVE RepulseFrom(_, _, _, _)
RepulseFrom(graph, acc, pairs, k) ==
    IF k > Len(pairs) THEN acc
    ELSE RepulseFrom(graph,
                     RepulsePair(graph, acc, room_order[pairs[k][1]],
                                 room_order[pairs[k][2]]),
                     pairs, k + 1)

\* gives [forces, rng]
\* steps 3 and 4: the Vastu and boundary forces are added to the forces
\* between the rooms
WithFieldForces(graph, acc) ==
    [rng |-> acc.rng,
     forces |-> [r \in DOMAIN positions |->
                   VAdd(VAdd(acc.forces[r],
                             _calculate_vastu_force(r, graph.nodes[r].room_type)),
                        _calculate_boundary_force(r))]]

_calculate_all_forces(graph) ==
    WithFieldForces(
        graph,
        RepulseFrom(graph,
                    [forces |-> [r \in DOMAIN positions |-> AttractiveOn(graph, r, 1)],
                     rng |-> rng],
                    PairsOf(Len(room_order)), 1))

\* "Extra safety" of the triangular branch: only with a polygon loaded
SnapInside(c) ==
    IF plot_polygon # <<>> /\ ~point_in_polygon(c, plot_polygon)
    THEN project_point_inside(c, plot_polygon)
    ELSE c

\* "Enforce hard boundaries" of _physics_step
EnforceBoundary(p, width, height) ==
    IF plot_shape = "irregular" /\ plot_polygon # <<>>
    THEN _project_inside_polygon(p, width, height)
    ELSE IF plot_shape = "circular" /\ plot_circle.set
    THEN _project_inside_circle(p, width, height)
    ELSE IF plot_shape = "triangular"
    THEN _project_inside_polygon(SnapInside(TriangularClamp(p, width, height)),
                                 width, height)
    ELSE RectangularClamp(p, width, height)

\* v = (v + F) * damping
NewVelocity(v, force) ==
    <<Quot((v[1] + force[1]) * damping10, 10),
      Quot((v[2] + force[2]) * damping10, 10)>>

\* a step that leaves no node alone
IsFixedNever(room_id) == FALSE

\* is the node left alone by the step
IsFixed(room_id) == room_id \in fixed_nodes

RECURSIVE MaxSpeed(_, _, _)
MaxSpeed(vel, i, m) ==
    IF i > Len(room_order) THEN m
    ELSE MaxSpeed(vel, i + 1,
                  IF IsFixed(room_order[i]) THEN m
                  ELSE Max(m, Norm(vel[room_order[i]])))

\* one call of _physics_step: [positions, velocities, rng, max_velocity]
\* pos += v * time_step
Displaced(p, v) == VAdd(p, <<Quot(v[1], time_step_inv), Quot(v[2], time_step_inv)>>)

\* the velocities of the step; those of the fixed nodes are zeroed
StepVelocities(forces) ==
    [r \in DOMAIN positions |->
       IF IsFixed(r) THEN Zero2 ELSE NewVelocity(velocities[r], forces[r])]

\* the positions of the step; the fixed nodes stay
StepPositions(vel) ==
    [r \in DOMAIN positions |->
       IF IsFixed(r) THEN positions[r]
       ELSE EnforceBoundary(Displaced(positions[r], vel[r]),
                            dimensions[r][1], dimensions[r][2])]

StepOutcome(vel, s) ==
    [positions |-> StepPositions(vel), velocities |-> vel, rng |-> s,
     max_velocity |-> MaxSpeed(vel, 1, 0)]

StepWith(af) == StepOutcome(StepVelocities(af.forces), af.rng)

\* one call of _physics_step: [positions, velocities, rng, max_velocity]
_physics_step(graph) == StepWith(_calculate_all_forces(graph))

\* does _calculate_all_forces raise in the current state
ForcesRaise == \E r \in DOMAIN positions : BoundaryForceRaises(r)

(***************************************************************************)
(* Overlap resolution                                                      *)
(***************************************************************************)
CheckOverlapAt(pos, room1_id, room2_id) ==
    LET x1 == pos[room1_id][1] - dimensions[room1_id][1] \div 2
        y1 == pos[room1_id][2] - dimensions[room1_id][2] \div 2
        x2 == pos[room2_id][1] - dimensions[room2_id][1] \div 2
        y2 == pos[room2_id][2] - dimensions[room2_id][2] \div 2
        w1 == dimensions[room1_id][1]
        h1 == dimensions[room1_id][2]
        w2 == dimensions[room2_id][1]
        h2 == dimensions[room2_id][2]
    IN  /\ x1 < x2 + w2 /\ x1 + w1 > x2
        /\ y1 < y2 + h2 /\ y1 + h1 > y2

_check_overlap(room1_id, room2_id) == CheckOverlapAt(positions, room1_id, room2_id)

\* "Enforce boundaries" of _resolve_overlaps: no circular branch
ResolveBoundary(p, w, h) ==
    IF plot_shape = "irregular" /\ plot_polygon # <<>>
    THEN _project_inside_polygon(p, w, h)
    ELSE IF plot_shape = "triangular"
    THEN TriangularClamp(p, w, h)
    ELSE RectangularClamp(p, w, h)

\* the push of an overlapping pair before the boundaries are enforced: the
\* two centres and the generator
PushCentres(room1_id, room2_id) ==
    LET delta0 == VSub(positions[room1_id], positions[room2_id])
        distance0 == Norm(delta0)
        s1 == RandNext(rng)
        s2 == RandNext(s1)
        random_push == distance0 < Scale \div 10
        \* np.random.uniform(-1, 1, 2) when the centres coincide
        delta == IF random_push
                 THEN <<Uniform(s1, -Scale, Scale), Uniform(s2, -Scale, Scale)>>
                 ELSE delta0
        distance == Norm(delta)
        d1 == dimensions[room1_id]
        d2 == dimensions[room2_id]
        required_separation == (Max(d1[1], d2[1]) + Max(d1[2], d2[2])) \div 2
        push == Quot(required_separation - distance, 2)
        step == VScale(delta, push, Max(1, distance))
    IN  [rng |-> IF random_push THEN s2 ELSE rng,
         p1 |-> VAdd(positions[room1_id], step),
         p2 |-> VSub(positions[room2_id], step)]

\* the body of the inner loop for an overlapping pair:
\* [positions, rng]
PushApart(room1_id, room2_id) ==
    [rng |-> PushCentres(room1_id, room2_id).rng,
     positions |->
        [positions EXCEPT
           ![room1_id] = ResolveBoundary(PushCentres(room1_id, room2_id).p1,
                                         dimensions[room1_id][1],
                                         dimensions[room1_id][2]),
           ![room2_id] = ResolveBoundary(PushCentres(room1_id, room2_id).p2,
                                         dimensions[room2_id][1],
                                         dimensions[room2_id][2])]]

(***************************************************************************)
(* Scoring.  Scores are in hundredths of a point.                          *)
(***************************************************************************)
_infer_direction_from_pos(pos) ==
    LET \* fx < 0.33 etc., compared exactly on 100 * pos against k * plot size
        cx == 100 * pos[1]
        cy == 100 * pos[2]
        col == IF cx < 33 * plot_width THEN "left"
               ELSE IF cx > 66 * plot_width THEN "right" ELSE "center"
        row == IF cy < 33 * plot_length THEN "top"
               ELSE IF cy > 66 * plot_length THEN "bottom" ELSE "center"
    IN  IF /\ Abs(cx - 50 * plot_width) < 15 * plot_width
           /\ Abs(cy - 50 * plot_length) < 15 * plot_length
        THEN "center"
        ELSE IF row = "top"
        THEN (IF col = "left" THEN "northeast"
              ELSE IF col = "center" THEN "north" ELSE "northwest")
        ELSE IF row = "bottom"
        THEN (IF col = "left" THEN "southeast"
              ELSE IF col = "center" THEN "south" ELSE "southwest")
        ELSE (IF col = "left" THEN "east"
              ELSE IF col = "right" THEN "west" ELSE "center")

\* sum of f over the indices 1..n
RECURSIVE SumTo(_, _)
SumTo(f(_), n) == IF n = 0 THEN 0 ELSE f(n) + SumTo(f, n - 1)

\* 1. overlaps: 15 points per overlapping pair
OverlapPenalty ==
    LET pairs == PairsOf(Len(room_order))
        one(k) == IF _check_overlap(room_order[pairs[k][1]], room_order[pairs[k][2]])
                  THEN 1500 ELSE 0
    IN  SumTo(one, Len(pairs))

\* 2. connected rooms more than 10 m apart: 0.5 points per metre beyond
AdjacencyPenalty(graph) ==
    LET pairs == PairsOf(Len(room_order))
        one(k) ==
            LET a == room_order[pairs[k][1]]
                b == room_order[pairs[k][2]]
                distance == Norm(VSub(positions[a], positions[b]))
            IN  IF has_edge(graph, a, b) /\ distance > 10 * Scale
                THEN Quot(distance - 10 * Scale, 2) ELSE 0
    IN  SumTo(one, Len(pairs))

RECURSIVE MinEdgeDist(_, _, _, _)
MinEdgeDist(corner, polygon, i, min_dist) ==
    IF i > Len(polygon) THEN min_dist
    ELSE LET d == _project_point_to_edge(corner, polygon[i],
                                         polygon[(i % Len(polygon)) + 1])[2]
         IN  MinEdgeDist(corner, polygon, i + 1,
                         IF min_dist < 0 THEN d ELSE Min(min_dist, d))

\* 3. rooms out of bounds
BoundsPenalty(room_id) ==
    LET pos == positions[room_id]
        w == dimensions[room_id][1]
        h == dimensions[room_id][2]
    IN  IF plot_shape = "irregular" /\ plot_polygon # <<>>
        THEN LET corners == Corners(pos, w, h)
                 one(i) == IF ~_point_in_polygon(corners[i])
                           THEN Min(10 * 100,
                                    2 * MinEdgeDist(corners[i], plot_polygon, 1, -1))
                           ELSE 0
             IN  SumTo(one, 4)
        ELSE IF plot_shape = "triangular"
        THEN (IF pos[1] - w \div 2 < 0 \/ pos[2] - h \div 2 < 0 THEN 1000 ELSE 0)
             + (LET val == HypotenuseVal(VAdd(pos, <<w \div 2, h \div 2>>))
                IN  IF val > 0 THEN Min(1000, val * 10) ELSE 0)
        ELSE IF \/ pos[1] - w \div 2 < 0 \/ pos[1] + w \div 2 > plot_width
                \/ pos[2] - h \div 2 < 0 \/ pos[2] + h \div 2 > plot_length
        THEN 1000 ELSE 0

SeqToSet(q) == {q[i] : i \in 1..Len(q)}

\* 4. Vastu compliance of one room: bonus (positive) or penalty (negative)
VastuBonus(graph, room_id) ==
    LET room_type_raw == graph.nodes[room_id].room_type
        rt == _normalize_room_type(room_type_raw)
        indoor == rt \in VastuTypes
        outdoor == _is_outdoor(room_type_raw) /\ ~indoor
                   /\ HasOutdoorPref(room_type_raw)
        direction == _infer_direction_from_pos(positions[room_id])
        weight10 == IF indoor THEN VASTU_PREFERENCES(rt).weight ELSE 5
        preferred == IF indoor THEN SeqToSet(VASTU_PREFERENCES(rt).preferred)
                     ELSE SeqToSet(OUTDOOR_VASTU_PREFERENCES(room_type_raw))
        acceptable == IF indoor THEN VASTU_PREFERENCES(rt).acceptable ELSE {}
        avoid == IF indoor THEN VASTU_PREFERENCES(rt).avoid ELSE {}
    IN  IF ~indoor /\ ~outdoor THEN 0
        ELSE IF direction \in preferred THEN 15 * weight10
        ELSE IF direction \in acceptable THEN 5 * weight10
        ELSE IF direction \in avoid THEN -(20 * weight10)
        ELSE 0

\* 5. elongated rooms: 3 points per unit of aspect ratio beyond 2.2
AspectPenalty(room_id) ==
    LET w == dimensions[room_id][1]
        h == dimensions[room_id][2]
        ratio1000 == Quot(Max(w, h) * 1000, Max(1, Min(w, h)))
    IN  IF Min(w, h) > 0 /\ ratio1000 > 2200
        THEN Quot((ratio1000 - 2200) * 3, 10) ELSE 0

\* the score before the last line of _calculate_score, in hundredths
RawScore(graph) ==
    LET per_room(i) == VastuBonus(graph, room_order[i])
                       - BoundsPenalty(room_order[i])
                       - AspectPenalty(room_order[i])
    IN  100 * 100 - OverlapPenalty - AdjacencyPenalty(graph)
        + SumTo(per_room, Len(room_order))

\* a score returned as it was summed
ScoreUnclamped(score) == score

\* max(0, min(100, score))
ClampScore(score) == Max(0, Min(100 * 100, score))

_calculate_score(graph) == ClampScore(RawScore(graph))

(***************************************************************************)
(* solve_floor_plan and GraphBasedLayoutSolver.solve                       *)
(***************************************************************************)
Warning(kind, n) == [kind |-> kind, n |-> n]

\* _is_room_outdoor of solve: by type, or named by id or type in
\* request.outdoor_fixtures
_is_room_outdoor(room) ==
    \/ _is_outdoor(room.type)
    \/ room.id \in request.outdoor_fixtures
    \/ room.type \in request.outdoor_fixtures

indoor_rooms == SelectSeq(request.rooms, LAMBDA r : ~_is_room_outdoor(r))
outdoor_rooms == SelectSeq(request.rooms, LAMBDA r : _is_room_outdoor(r))

\* the circle inferred from the plot dimensions
InferredCircle == [set |-> TRUE, center |-> PlotCenter,
                   radius |-> Min(plot_width, plot_length) \div 2]

\* the circle a request with valid circle constraints carries
RequestCircle == [set |-> TRUE, center |-> PlotCenter,
                  radius |-> Min(plot_width, plot_length) \div 4]

\* a constructor that leaves the generator as it is
SeedIgnored(seed, s) == s

\* np.random.seed(seed) of __init__, only when a seed is given
SeedGenerator(seed, s) == IF seed # NoSeed THEN SeedState(seed) ELSE s

\* solve_floor_plan: the constructor, then solve up to the split of the
\* rooms (plot shape, polygon and circle constraints)
SolveFloorPlan ==
    /\ UNCHANGED <<sa_vars, lib_vars>>
    /\ pc = "idle"
    /\ rng' = SeedGenerator(request.seed, rng)
    /\ LET c == request.constraints
           shape0 == request.plot_shape
           bad_polygon == shape0 = "irregular" /\ c.given /\ c.plot_polygon = <<>>
           shape1 == IF bad_polygon THEN "rectangular" ELSE shape0
           w1 == IF bad_polygon THEN <<Warning("irregular_no_polygon", 0)>> ELSE <<>>
           circle_branch == shape1 = "circular" \/ (c.given /\ c.circle # "absent")
           has_data == c.given /\ c.circle # "absent"
       IN  /\ plot_polygon' = IF shape0 = "irregular" /\ c.given /\ c.plot_polygon # <<>>
                              THEN c.plot_polygon ELSE <<>>
           /\ plot_circle' = IF circle_branch /\ has_data /\ c.circle = "valid"
                             THEN RequestCircle
                             ELSE IF circle_branch THEN InferredCircle
                             ELSE NoCircle
           /\ plot_shape' = IF circle_branch THEN "circular" ELSE shape1
           /\ warnings' = IF circle_branch /\ has_data /\ c.circle = "invalid"
                          THEN Append(w1, Warning("circle_invalid", 0)) ELSE w1
    /\ fixed_nodes' = {}
    /\ frozen' = EmptyMap
    /\ capped' = FALSE
    /\ positions' = EmptyMap /\ velocities' = EmptyMap /\ dimensions' = EmptyMap
    /\ room_order' = <<>>
    /\ sim_graph' = NoGraph /\ G' = NoGraph
    /\ converged' = TRUE /\ iterations' = 0
    /\ sim_iteration' = 0 /\ sweep' = 0 /\ pair' = 1
    /\ overlaps_resolved' = 0 /\ overlap_count' = 0
    /\ phase' = 1
    /\ calls' = calls + 1
    /\ pc' = "phase1"
    /\ UNCHANGED <<request, prev_response, response, raised>>

\* entering _run_simulation(graph) for the given phase
StartSimulation(graph, ph) ==
    /\ sim_graph' = graph
    /\ sim_iteration' = 0
    /\ phase' = ph
    /\ pc' = "sim"

\* entering _resolve_overlaps for the given phase
StartResolve(ph) ==
    /\ sweep' = 0 /\ pair' = 1 /\ overlaps_resolved' = 0
    /\ phase' = ph
    /\ pc' = "resolve"

\* the dicts of the solver after _initialize_positions
PositionsBecome(st) ==
    /\ positions' = st.positions
    /\ velocities' = st.velocities
    /\ dimensions' = st.dimensions
    /\ room_order' = st.room_order
    /\ rng' = st.rng

\* Phase 1: the indoor graph and the indoor positions, or nothing to place
Phase1Start ==
    /\ UNCHANGED <<sa_vars, lib_vars, frozen, capped>>
    /\ pc = "phase1"
    /\ IF indoor_rooms # <<>>
       THEN /\ PositionsBecome(_initialize_positions(indoor_rooms))
            /\ StartSimulation(_build_adjacency_graph(indoor_rooms), 1)
            /\ UNCHANGED <<converged, iterations>>
       ELSE /\ converged' = TRUE /\ iterations' = 0
            /\ pc' = "phase2"
            /\ UNCHANGED <<positions, velocities, dimensions, room_order, rng,
                           sim_graph, sim_iteration, phase>>
    /\ UNCHANGED <<request, calls, prev_response, plot_shape, plot_polygon,
                   plot_circle, fixed_nodes, G, warnings, sweep, pair,
                   overlaps_resolved, overlap_count, response, raised>>

\* what the caller does with the value _run_simulation returns
SimulationReturns(conv, iters) ==
    IF phase = 2
    THEN /\ iterations' = iterations + iters
         /\ warnings' = IF ~conv
                        THEN Append(warnings, Warning("phase2_not_converged", 0))
                        ELSE warnings
         /\ converged' = converged
         /\ StartResolve(2)
    ELSE IF phase = 1
    THEN /\ iterations' = iters /\ converged' = conv
         /\ warnings' = warnings
         /\ StartResolve(1)
    ELSE /\ iterations' = iters /\ converged' = conv
         /\ warnings' = warnings
         /\ pc' = "final"
         /\ UNCHANGED <<sweep, pair, overlaps_resolved, phase>>

\* the body of the loop of _run_simulation after the physics step st
StepTaken(st) ==
    /\ positions' = st.positions
    /\ velocities' = st.velocities
    /\ rng' = st.rng
    /\ IF st.max_velocity < convergence_threshold
       THEN /\ SimulationReturns(TRUE, sim_iteration + 1)
            /\ sim_iteration' = sim_iteration
       ELSE /\ sim_iteration' = sim_iteration + 1
            /\ UNCHANGED <<iterations, converged, warnings, sweep,
                           pair, overlaps_resolved, phase, pc>>

\* one iteration of the loop of _run_simulation, or its exit at the cap
SimulationStep ==
    /\ UNCHANGED <<sa_vars, lib_vars, frozen>>
    /\ capped' = (capped \/ sim_iteration >= max_iterations)
    /\ pc = "sim"
    /\ IF sim_iteration >= max_iterations
       THEN /\ SimulationReturns(FALSE, max_iterations)
            /\ UNCHANGED <<positions, velocities, rng, sim_iteration, raised>>
       ELSE IF ForcesRaise
       THEN /\ raised' = TRUE
            /\ pc' = "raised"
            /\ UNCHANGED <<positions, velocities, rng, sim_iteration, iterations,
                           converged, warnings, sweep, pair, overlaps_resolved,
                           phase>>
       ELSE /\ raised' = raised
            /\ StepTaken(_physics_step(sim_graph))
    /\ UNCHANGED <<request, calls, prev_response, plot_shape, plot_polygon,
                   plot_circle, fixed_nodes, dimensions, room_order, sim_graph,
                   G, overlap_count, response>>

\* the pair of room ids the inner loops of _resolve_overlaps are at
ResolvePairs == PairsOf(Len(room_order))

\* the positions and the generator after a push
Pushed(st) == positions' = st.positions /\ rng' = st.rng

\* one pass of the inner loop body of _resolve_overlaps: the pair is
\* checked and, when it overlaps, pushed apart and re-clamped
ResolvePair ==
    /\ UNCHANGED <<sa_vars, lib_vars, frozen, capped>>
    /\ pc = "resolve"
    /\ pair <= Len(ResolvePairs)
    /\ IF _check_overlap(room_order[ResolvePairs[pair][1]],
                         room_order[ResolvePairs[pair][2]])
       THEN /\ overlaps_resolved' = overlaps_resolved + 1
            /\ Pushed(PushApart(room_order[ResolvePairs[pair][1]],
                                room_order[ResolvePairs[pair][2]]))
       ELSE UNCHANGED <<overlaps_resolved, positions, rng>>
    /\ pair' = pair + 1
    /\ UNCHANGED <<request, calls, prev_response, pc, plot_shape, plot_polygon,
                   plot_circle, fixed_nodes, velocities, dimensions, room_order,
                   sim_graph, G, warnings, converged, iterations, sim_iteration,
                   sweep, overlap_count, phase, response, raised>>

\* the end of one sweep: the count of the sweep is kept; the loop ends on
\* a sweep without overlap or after resolve_max_iterations sweeps
ResolveSweepEnd ==
    /\ UNCHANGED <<sa_vars, lib_vars, frozen, capped>>
    /\ pc = "resolve"
    /\ pair > Len(ResolvePairs)
    /\ overlap_count' = overlaps_resolved
    /\ IF overlaps_resolved = 0 \/ sweep + 1 >= resolve_max_iterations
       THEN /\ pc' = "resolved"
            /\ UNCHANGED <<sweep, pair, overlaps_resolved>>
       ELSE /\ sweep' = sweep + 1
            /\ pair' = 1
            /\ overlaps_resolved' = 0
            /\ pc' = pc
    /\ UNCHANGED <<rng, request, calls, prev_response, plot_shape, plot_polygon,
                   plot_circle, fixed_nodes, positions, velocities, dimensions,
                   room_order, sim_graph, G, warnings, converged, iterations,
                   sim_iteration, phase, response, raised>>

\* after the overlap resolution of phase 1: the warning, the indoor nodes
\* are frozen, G is the indoor graph
Phase1End ==
    /\ UNCHANGED <<sa_vars, lib_vars>>
    /\ pc = "resolved" /\ phase = 1
    /\ warnings' = IF overlap_count > 0
                   THEN Append(warnings, Warning("phase1_overlaps", overlap_count))
                   ELSE warnings
    /\ fixed_nodes' = {indoor_rooms[i].id : i \in 1..Len(indoor_rooms)}
    /\ frozen' = positions
    /\ capped' = capped
    /\ G' = sim_graph
    /\ pc' = "phase2"
    /\ UNCHANGED <<rng, request, calls, prev_response, plot_shape, plot_polygon,
                   plot_circle, positions, velocities, dimensions, room_order,
                   sim_graph, converged, iterations, sim_iteration, sweep, pair,
                   overlaps_resolved, overlap_count, phase, response, raised>>

\* Phase 2: the outdoor rooms are initialized and simulated on the full
\* graph; without any room at all the simulation runs on the empty graph
Phase2Start ==
    /\ UNCHANGED <<sa_vars, lib_vars, frozen, capped>>
    /\ pc = "phase2"
    /\ IF outdoor_rooms # <<>> \/ indoor_rooms = <<>>
       THEN /\ PositionsBecome(_initialize_positions(
                                IF outdoor_rooms # <<>> THEN outdoor_rooms
                                ELSE request.rooms))
            /\ G' = _build_adjacency_graph(request.rooms)
            /\ StartSimulation(G', IF outdoor_rooms # <<>> THEN 2 ELSE 0)
       ELSE /\ pc' = "final"
            /\ UNCHANGED <<positions, velocities, dimensions, room_order, rng,
                           G, sim_graph, sim_iteration, phase>>
    /\ UNCHANGED <<request, calls, prev_response, plot_shape, plot_polygon,
                   plot_circle, fixed_nodes, warnings, converged, iterations,
                   sweep, pair, overlaps_resolved, overlap_count, response,
                   raised>>

\* after the overlap resolution of phase 2
Phase2End ==
    /\ UNCHANGED <<sa_vars, lib_vars, frozen, capped>>
    /\ pc = "resolved" /\ phase = 2
    /\ warnings' = IF overlap_count > 0
                   THEN Append(warnings, Warning("phase2_overlaps", overlap_count))
                   ELSE warnings
    /\ pc' = "final"
    /\ UNCHANGED <<rng, request, calls, prev_response, plot_shape, plot_polygon,
                   plot_circle, fixed_nodes, positions, velocities, dimensions,
                   room_order, sim_graph, G, converged, iterations,
                   sim_iteration, sweep, pair, overlaps_resolved, overlap_count,
                   phase, response, raised>>

\* the convergence warning, then the final overlap resolution
FinalStart ==
    /\ UNCHANGED <<sa_vars, lib_vars, frozen, capped>>
    /\ pc = "final"
    /\ warnings' = IF ~converged
                   THEN Append(warnings, Warning("not_converged", 0))
                   ELSE warnings
    /\ StartResolve(3)
    /\ UNCHANGED <<rng, request, calls, prev_response, plot_shape, plot_polygon,
                   plot_circle, fixed_nodes, positions, velocities, dimensions,
                   room_order, sim_graph, G, converged, iterations,
                   sim_iteration, overlap_count, response, raised>>

\* one Room of the response: the corner position from the centre; the
\* direction is the one the request carried
ResponseRoom(room_data) ==
    LET pos == positions[room_data.id]
        width == dimensions[room_data.id][1]
        height == dimensions[room_data.id][2]
    IN  [id |-> room_data.id, type |-> room_data.type,
         x |-> pos[1] - width \div 2, y |-> pos[2] - height \div 2,
         width |-> width, height |-> height,
         direction |-> room_data.direction]

\* the warnings without the one of the final overlap resolution
OverlapWarningsDropped(ws, n) == ws

\* "n room overlaps could not be resolved", appended when n > 0
OverlapWarnings(ws, n) ==
    IF n > 0 THEN Append(ws, Warning("overlaps", n)) ELSE ws

\* after the final overlap resolution: the warning, the score, the response
BuildResponse ==
    /\ UNCHANGED <<sa_vars, lib_vars, frozen, capped>>
    /\ pc = "resolved" /\ phase = 3
    /\ warnings' = OverlapWarnings(warnings, overlap_count)
    /\ response' = [rooms |-> [i \in 1..Len(request.rooms) |->
                                 ResponseRoom(request.rooms[i])],
                    score |-> _calculate_score(
                                 IF G = NoGraph
                                 THEN _build_adjacency_graph(request.rooms)
                                 ELSE G),
                    iterations |-> iterations,
                    converged |-> converged,
                    warnings |-> warnings']
    /\ pc' = "done"
    /\ UNCHANGED <<rng, request, calls, prev_response, plot_shape, plot_polygon,
                   plot_circle, fixed_nodes, positions, velocities, dimensions,
                   room_order, sim_graph, G, converged, iterations,
                   sim_iteration, sweep, pair, overlaps_resolved, overlap_count,
                   phase, raised>>

\* the client keeps the outcome and calls solve_floor_plan again later; in
\* between, other users of np.random leave the generator in any state
NextCall ==
    /\ UNCHANGED <<sa_vars, lib_vars, frozen, capped>>
    /\ pc \in {"done", "raised"}
    /\ calls < MaxCalls
    /\ prev_response' = [done |-> pc = "done", response |-> response]
    /\ rng' \in 0..(RngMod - 1)
    /\ response' = NoResponse
    /\ raised' = FALSE
    /\ pc' = "idle"
    /\ UNCHANGED <<request, calls, plot_shape, plot_polygon, plot_circle,
                   fixed_nodes, positions, velocities, dimensions, room_order,
                   sim_graph, G, warnings, converged, iterations, sim_iteration,
                   sweep, pair, overlaps_resolved, overlap_count, phase>>

\* the solver before solve_floor_plan is called
PlacerIdle ==
    /\ calls = 0
    /\ prev_response = [done |-> FALSE, response |-> NoResponse]
    /\ pc = "idle"
    /\ plot_shape = "rectangular"
    /\ plot_polygon = <<>>
    /\ plot_circle = NoCircle
    /\ fixed_nodes = {}
    /\ frozen = EmptyMap
    /\ capped = FALSE
    /\ positions = EmptyMap /\ velocities = EmptyMap /\ dimensions = EmptyMap
    /\ room_order = <<>>
    /\ sim_graph = NoGraph /\ G = NoGraph
    /\ warnings = <<>>
    /\ converged = TRUE /\ iterations = 0
    /\ sim_iteration = 0 /\ sweep = 0 /\ pair = 1
    /\ overlaps_resolved = 0 /\ overlap_count = 0
    /\ phase = 1
    /\ response = NoResponse
    /\ raised = FALSE

Init ==
    /\ request \in Requests
    /\ rng \in 0..(RngMod - 1)
    /\ PlacerIdle
    /\ NoRefinement
    /\ LibIdle

Next ==
    \/ SolveFloorPlan
    \/ Phase1Start
    \/ SimulationStep
    \/ ResolvePair
    \/ ResolveSweepEnd
    \/ Phase1End
    \/ Phase2Start
    \/ Phase2End
    \/ FinalStart
    \/ BuildResponse

vars == <<placer_vars, sa_vars, lib_vars>>

\* one call of solve_floor_plan for every request of the model
Spec == Init /\ [][Next]_vars

\* the requests of a client that calls twice
RepeatedRequests ==
    RequestsOf({Living, LivingGarden}, {SmallPlot}, {"rectangular"},
               {NoConstraints})

InitRepeated == Init /\ request \in RepeatedRequests

NextRepeated == Next \/ NextCall

\* a client that calls solve_floor_plan up to MaxCalls times with one
\* request
SpecRepeated == InitRepeated /\ [][NextRepeated]_vars

(***************************************************************************)
(* The refiner, sa_solver_impl.py.  Lengths are in millimetres, areas in   *)
(* square millimetres, energies and temperatures in thousandths.  A room   *)
(* polygon is an axis-parallel rectangle (allow_rotations is off), held as *)
(* its bounds <<minx, miny, maxx, maxy>>.                                  *)
(***************************************************************************)
\* units per metre
SAScale == 1000

\* SAParams
T0 == 1000
alpha1000 == 995
grid_snap == 10
slide_step == 100
overlap_tolerance == 1000
lambda_overlap == 100000
lambda_vastu == 1
lambda_adjacency10 == 8
lambda_circulation10 == 12
lambda_boundary == 2
lambda_alignment10 == 5
lambda_area10 == 7
\* req.get('min_circulation', 0.8)
min_circulation == 800
\* SpatialIndex.grid_size
index_grid_size == 1000
\* the tolerance of rooms_have_aligned_edges
align_tolerance == 100

\* shapely on rectangles
box(minx, miny, maxx, maxy) == <<minx, miny, maxx, maxy>>
PolyArea(p) == (p[3] - p[1]) * (p[4] - p[2])
Intersects(p, q) ==
    p[1] <= q[3] /\ q[1] <= p[3] /\ p[2] <= q[4] /\ q[2] <= p[4]
IntersectionArea(p, q) ==
    Max(0, Min(p[3], q[3]) - Max(p[1], q[1]))
    * Max(0, Min(p[4], q[4]) - Max(p[2], q[2]))
Touches(p, q) == Intersects(p, q) /\ IntersectionArea(p, q) = 0
PolyDistance(p, q) ==
    Norm(<<Max(0, Max(p[1], q[1]) - Min(p[3], q[3])),
           Max(0, Max(p[2], q[2]) - Min(p[4], q[4]))>>)
Contains(outer, p) ==
    outer[1] <= p[1] /\ p[3] <= outer[3] /\ outer[2] <= p[2] /\ p[4] <= outer[4]
\* the interior of outer holds the point
ContainsPoint(outer, x, y) ==
    outer[1] < x /\ x < outer[3] /\ outer[2] < y /\ y < outer[4]
\* twice the centroid
Centroid2(p) == <<p[1] + p[3], p[2] + p[4]>>
Translate(p, xoff, yoff) == <<p[1] + xoff, p[2] + yoff, p[3] + xoff, p[4] + yoff>>
\* the exterior ring of a box, without the closing point
ExteriorCoords(p) == << <<p[3], p[2]>>, <<p[3], p[4]>>, <<p[1], p[4]>>, <<p[1], p[2]>> >>

\* round(n / d) of Python: to the nearest integer, ties to the even one (d > 0)
RoundHalfEven(n, d) ==
    IF 2 * (n % d) < d THEN n \div d
    ELSE IF 2 * (n % d) > d THEN n \div d + 1
    ELSE IF (n \div d) % 2 = 0 THEN n \div d
    ELSE n \div d + 1

\* round(x / grid_size), without the product with grid_size
SnapCoordAsCount(n, d, grid_size) == RoundHalfEven(n, d * grid_size)

\* snap_to_grid on a coordinate given as the fraction n / d
SnapCoord(n, d, grid_size) == RoundHalfEven(n, d * grid_size) * grid_size

snap_to_grid(poly, grid_size) ==
    <<SnapCoord(poly[1], 1, grid_size), SnapCoord(poly[2], 1, grid_size),
      SnapCoord(poly[3], 1, grid_size), SnapCoord(poly[4], 1, grid_size)>>

\* RoomState.__post_init__: original_area is taken from the polygon
RoomState__post_init__(r) == [r EXCEPT !.original_area = PolyArea(r.polygon)]

\* RoomState.copy: the constructor is given original_area, and
\* __post_init__ then overwrites it
RoomState_copy(r) ==
    RoomState__post_init__([polygon |-> r.polygon,
                            original_area |-> r.original_area])

\* [r.copy() for r in rooms] on a list of objects
CopyAll(rooms) == [i \in 1..Len(rooms) |-> RoomState_copy(rooms[i])]

\* the objects a list of identities names
Deref(h, ids) == [i \in 1..Len(ids) |-> h[ids[i]]]

\* the identities of n objects allocated after those of h
Fresh(h, n) == [i \in 1..n |-> Len(h) + i]

\* SpatialIndex(rooms): the bounds at insertion; the grid stays empty when
\* rtree is in use
SpatialIndex(rooms) ==
    [bounds |-> [i \in 1..Len(rooms) |-> rooms[i].polygon],
     use_rtree |-> use_rtree]

\* int(b / grid_size)
CellOf(b) == Quot(b, index_grid_size)

\* the room inserted with bounds b lies in a grid cell the query bounds q
\* cover
SharesCell(b, q) ==
    /\ CellOf(b[1]) <= CellOf(q[3]) /\ CellOf(q[1]) <= CellOf(b[3])
    /\ CellOf(b[2]) <= CellOf(q[4]) /\ CellOf(q[2]) <= CellOf(b[4])

\* rtree: idx.intersection(bounds); grid: the rooms of the cells covered
IndexCandidates(index, q) ==
    {i \in 1..Len(index.bounds) :
        IF index.use_rtree THEN Intersects(index.bounds[i], q)
        ELSE SharesCell(index.bounds[i], q)}

\* the candidates filtered with the polygons the rooms have now
query_overlaps(index, rooms, polygon) ==
    {i \in IndexCandidates(index, polygon) : Intersects(polygon, rooms[i].polygon)}

\* query_nearby reads the grid only
query_nearby(index, polygon, distance) ==
    {i \in 1..Len(index.bounds) :
        /\ ~index.use_rtree
        /\ SharesCell(index.bounds[i],
                      <<polygon[1] - distance, polygon[2] - distance,
                        polygon[3] + distance, polygon[4] + distance>>)}

(***************************************************************************)
(* PhiGrid.sample_phi and compute_energy                                   *)
(***************************************************************************)
\* VASTU_ZONES of phi_grid.py: the preferred centre in quarters of the plot
\* and the weight in tenths; the default of .get for the other types
VASTU_ZONES(room_type) ==
    CASE room_type = "pooja_room" -> [preferred |-> <<3, 3>>, weight |-> 10]
      [] room_type = "kitchen" -> [preferred |-> <<3, 1>>, weight |-> 9]
      [] room_type = "master_bedroom" -> [preferred |-> <<1, 1>>, weight |-> 8]
      [] room_type = "bedroom" -> [preferred |-> <<1, 2>>, weight |-> 6]
      [] room_type = "living" -> [preferred |-> <<2, 3>>, weight |-> 7]
      [] room_type = "dining" -> [preferred |-> <<2, 2>>, weight |-> 5]
      [] room_type = "bathroom" -> [preferred |-> <<1, 3>>, weight |-> 7]
      [] OTHER -> [preferred |-> <<2, 2>>, weight |-> 5]

\* exp(-k / 32) in thousandths for k = 0, 1, ...: the Gaussian of _init_grids
\* with gaussian_sigma = 2, by quarters of a square metre of r * r
GaussTable ==
    <<1000, 969, 939, 911, 882, 855, 829, 804, 779, 755, 732, 709, 687, 666,
      646, 626, 607, 588, 570, 552, 535, 519, 503, 487, 472, 458, 444, 430,
      417, 404, 392, 380, 368, 357, 346, 335, 325, 315, 305, 296, 287, 278,
      269, 261, 253, 245, 238, 230, 223, 216, 210, 203, 197, 191, 185, 179,
      174, 168, 163, 158, 153, 149, 144, 140, 135>>

Gauss(k) == IF k + 1 <= Len(GaussTable) THEN GaussTable[k + 1] ELSE 0

\* the grid of one room type at the point whose doubled coordinates are c2:
\* one preferred centre, normalised to a maximum of 1
GridValue(plot, room_type, c2) ==
    Gauss(Quot(
        Dot(VSub(c2, <<2 * plot[1]
                         + (VASTU_ZONES(room_type).preferred[1] * (plot[3] - plot[1])) \div 2,
                       2 * plot[2]
                         + (VASTU_ZONES(room_type).preferred[2] * (plot[4] - plot[2])) \div 2>>),
            VSub(c2, <<2 * plot[1]
                         + (VASTU_ZONES(room_type).preferred[1] * (plot[3] - plot[1])) \div 2,
                       2 * plot[2]
                         + (VASTU_ZONES(room_type).preferred[2] * (plot[4] - plot[2])) \div 2>>)),
        SAScale * SAScale))

\* PhiGrid.sample_point at a point given by its doubled coordinates: 0
\* unless the plot contains the point
sample_point(plot, c2, room_type) ==
    IF ~ContainsPoint(<<2 * plot[1], 2 * plot[2], 2 * plot[3], 2 * plot[4]>>,
                      c2[1], c2[2])
    THEN 0
    ELSE GridValue(plot, room_type, c2)

\* PhiGrid.sample_phi: the mean over the room types of the grid, 0 without
\* room types
sample_phi(plot, room_types, c2) ==
    IF room_types = <<>> THEN 0
    ELSE LET one(k) == sample_point(plot, c2, room_types[k])
         IN  Quot(SumTo(one, Len(room_types)), Len(room_types))

\* "Room overlaps": every ordered pair the index reports
OverlapEnergy(rooms, index) ==
    LET one(i) ==
          LET other(j) ==
                IF j # i /\ j \in query_overlaps(index, rooms, rooms[i].polygon)
                THEN (lambda_overlap \div SAScale)
                     * Max(0, IntersectionArea(rooms[i].polygon, rooms[j].polygon)
                              - overlap_tolerance)
                ELSE 0
          IN  SumTo(other, Len(rooms))
    IN  SumTo(one, Len(rooms))

\* "Vastu potential"
VastuEnergy(rooms, plot, room_types) ==
    LET one(i) == lambda_vastu * sample_phi(plot, room_types, Centroid2(rooms[i].polygon))
    IN  -SumTo(one, Len(rooms))

\* "Adjacency satisfaction": the pairs i < j; the pair is required when
\* required_adj[i] holds j
AdjacencyEnergy(rooms, required_adj) ==
    LET one(i) ==
          LET other(j) ==
                IF i >= j THEN 0
                ELSE IF <<i, j>> \in required_adj
                THEN IF ~Touches(rooms[i].polygon, rooms[j].polygon)
                     THEN Quot(lambda_adjacency10
                               * PolyDistance(rooms[i].polygon, rooms[j].polygon), 10)
                     ELSE 0
                ELSE IF Touches(rooms[i].polygon, rooms[j].polygon)
                THEN lambda_adjacency10 * 10
                ELSE 0
          IN  SumTo(other, Len(rooms))
    IN  SumTo(one, Len(rooms))

\* "Circulation space": room != other compares a RoomState with an index
\* and is always true, so the room itself is counted
CirculationEnergy(rooms, index) ==
    LET one(i) ==
          LET other(j) ==
                IF j \in query_nearby(index, rooms[i].polygon, min_circulation)
                   /\ PolyDistance(rooms[i].polygon, rooms[j].polygon) < min_circulation
                THEN Quot(lambda_circulation10
                          * (min_circulation
                             - PolyDistance(rooms[i].polygon, rooms[j].polygon)), 10)
                ELSE 0
          IN  SumTo(other, Len(rooms))
    IN  SumTo(one, Len(rooms))

\* "Boundary containment": the area of the room outside the plot
BoundaryEnergy(rooms, plot) ==
    LET one(i) ==
          IF ~Contains(plot, rooms[i].polygon)
          THEN Quot(lambda_boundary
                    * (PolyArea(rooms[i].polygon)
                       - IntersectionArea(rooms[i].polygon, plot)), SAScale)
          ELSE 0
    IN  SumTo(one, Len(rooms))

\* "Room area preservation": the target is the 'area' of the request room,
\* room.original_area without it
AreaEnergy(rooms, req) ==
    LET one(i) ==
          Quot(lambda_area10
               * Abs(PolyArea(rooms[i].polygon)
                     - (IF req.has_area THEN req.area[i]
                        ELSE rooms[i].original_area)), 10 * SAScale)
    IN  SumTo(one, Len(rooms))

\* the edges of a ring as pairs of end points
Edges(p) ==
    [k \in 1..4 |-> <<ExteriorCoords(p)[k], ExteriorCoords(p)[(k % 4) + 1]>>]

\* one pair of edges in rooms_have_aligned_edges: both vertical, or both
\* with nearly the same slope (horizontal, for boxes), and end points near
EdgesAligned(e, f) ==
    /\ (e[1][1] = e[2][1]) = (f[1][1] = f[2][1])
    /\ Min(Min(Abs(e[1][2] - f[1][2]), Abs(e[2][2] - f[2][2])),
           Min(Abs(e[1][1] - f[1][1]), Abs(e[2][1] - f[2][1]))) < align_tolerance

rooms_have_aligned_edges(poly1, poly2) ==
    \E a \in 1..4, b \in 1..4 : EdgesAligned(Edges(poly1)[a], Edges(poly2)[b])

\* "Alignment bonus"
AlignmentEnergy(rooms) ==
    LET one(i) ==
          LET other(j) ==
                IF i < j /\ rooms_have_aligned_edges(rooms[i].polygon, rooms[j].polygon)
                THEN lambda_alignment10 * 100
                ELSE 0
          IN  SumTo(other, Len(rooms))
    IN  -SumTo(one, Len(rooms))

\* compute_energy with the index built over the rooms
EnergyWith(rooms, req, room_types, index) ==
    OverlapEnergy(rooms, index)
    + VastuEnergy(rooms, req.plot, room_types)
    + AdjacencyEnergy(rooms, req.adjacency)
    + CirculationEnergy(rooms, index)
    + BoundaryEnergy(rooms, req.plot)
    + AreaEnergy(rooms, req)
    + AlignmentEnergy(rooms)

compute_energy(rooms, req, room_types) ==
    EnergyWith(rooms, req, room_types, SpatialIndex(rooms))

(***************************************************************************)
(* propose_move and deterministic_local_improve                            *)
(***************************************************************************)
\* the nearer pair of vertices so far: acc = <<squared distance, p1, p2>>,
\* a negative distance standing for float('inf')
Closer(acc, p1, p2) ==
    IF acc[1] < 0 \/ Dot(VSub(p1, p2), VSub(p1, p2)) < acc[1]
    THEN <<Dot(VSub(p1, p2), VSub(p1, p2)), p1, p2>>
    ELSE acc

RECURSIVE ClosestFrom(_, _, _, _)
\* "Check all vertex pairs", the vertices of poly1 in the outer loop
ClosestFrom(ps, qs, k, acc) ==
    IF k > 16 THEN acc
    ELSE ClosestFrom(ps, qs, k + 1,
                     Closer(acc, ps[((k - 1) \div 4) + 1], qs[((k - 1) % 4) + 1]))

\* closest_points_on_polygons, the two points with doubled coordinates: the
\* centroids when the polygons intersect
closest_points_on_polygons(poly1, poly2) ==
    IF Intersects(poly1, poly2) THEN <<Centroid2(poly1), Centroid2(poly2)>>
    ELSE <<VScale(ClosestFrom(ExteriorCoords(poly1), ExteriorCoords(poly2), 1,
                              <<-1, Zero2, Zero2>>)[2], 2, 1),
           VScale(ClosestFrom(ExteriorCoords(poly1), ExteriorCoords(poly2), 1,
                              <<-1, Zero2, Zero2>>)[3], 2, 1)>>

\* a step of length len along d, nothing when d vanishes
StepAlong(d, len) == IF Norm(d) > 0 THEN VScale(d, len, Norm(d)) ELSE Zero2

\* a polygon whose x coordinates are nx / dx and y coordinates ny / dy
Fraction(nx0, ny0, nx1, ny1, dx, dy) ==
    [nx0 |-> nx0, ny0 |-> ny0, nx1 |-> nx1, ny1 |-> ny1, dx |-> dx, dy |-> dy]

Whole(p) == Fraction(p[1], p[2], p[3], p[4], 1, 1)

\* snap_to_grid of a polygon with fractional coordinates
SnapFraction(f, grid_size) ==
    <<SnapCoord(f.nx0, f.dx, grid_size), SnapCoord(f.ny0, f.dy, grid_size),
      SnapCoord(f.nx1, f.dx, grid_size), SnapCoord(f.ny1, f.dy, grid_size)>>

\* affinity.scale(polygon, xfact = s / 1000, yfact = 1000 / s,
\* origin = 'centroid')
ScaleAboutCentroid(p, s) ==
    Fraction(1000 * (p[1] + p[3]) + (p[1] - p[3]) * s,
             s * (p[2] + p[4]) + (p[2] - p[4]) * 1000,
             1000 * (p[1] + p[3]) + (p[3] - p[1]) * s,
             s * (p[2] + p[4]) + (p[4] - p[2]) * 1000,
             2000, 2 * s)

\* the translation that puts the centroid at (x, y)
HopTo(p, x, y) ==
    Fraction(p[1] - p[3] + 2 * x, p[2] - p[4] + 2 * y,
             p[3] - p[1] + 2 * x, p[4] - p[2] + 2 * y, 2, 2)

\* the set the align move iterates over: the first index that is not the
\* room itself is used, then the loop breaks
AlignPartners(rooms, room_idx) ==
    query_nearby(SpatialIndex(rooms), rooms[room_idx].polygon, slide_step * 2)
    \ {room_idx}

FirstOf(indices) == CHOOSE i \in indices : \A j \in indices : i <= j

AlignToward(p, points) ==
    Translate(p, StepAlong(VSub(points[2], points[1]), slide_step)[1],
                 StepAlong(VSub(points[2], points[1]), slide_step)[2])

\* the polygon of the chosen room after the move, before the snap
MovedPolygon(rooms, req, room_idx, move) ==
    CASE move.type = "translate" ->
           Whole(Translate(rooms[room_idx].polygon, move.a, move.b))
      [] move.type = "resize" ->
           ScaleAboutCentroid(rooms[room_idx].polygon, move.a)
      [] move.type = "vastu_hop" ->
           IF ContainsPoint(req.plot, move.a, move.b)
           THEN HopTo(rooms[room_idx].polygon, move.a, move.b)
           ELSE Whole(rooms[room_idx].polygon)
      [] move.type = "align" ->
           IF AlignPartners(rooms, room_idx) # {}
           THEN Whole(AlignToward(
                        rooms[room_idx].polygon,
                        closest_points_on_polygons(
                            rooms[room_idx].polygon,
                            rooms[FirstOf(AlignPartners(rooms, room_idx))].polygon)))
           ELSE Whole(rooms[room_idx].polygon)

\* room.polygon = ... on the object at room_idx
WithPolygon(rooms, room_idx, polygon) ==
    [rooms EXCEPT ![room_idx].polygon = polygon]

\* propose_move: the rooms are copied, the chosen copy is moved and snapped
propose_move(rooms, req, room_idx, move) ==
    WithPolygon(CopyAll(rooms), room_idx,
                SnapFraction(MovedPolygon(rooms, req, room_idx, move), grid_snap))

\* the repulsion of room i from the rooms the index reports as overlapping
Repulsion(rooms, index, i) ==
    LET one(j) ==
          IF j # i /\ j \in query_overlaps(index, rooms, rooms[i].polygon)
          THEN StepAlong(VSub(Centroid2(rooms[i].polygon), Centroid2(rooms[j].polygon)),
                         Min(Quot(IntersectionArea(rooms[i].polygon, rooms[j].polygon),
                                  SAScale),
                             slide_step))
          ELSE Zero2
        x(j) == one(j)[1]
        y(j) == one(j)[2]
    IN  <<SumTo(x, Len(rooms)), SumTo(y, Len(rooms))>>

RECURSIVE RepelFrom(_, _, _)
\* "Attempt to resolve overlaps": the rooms in turn, each against the
\* rooms as they are now; the index keeps the bounds of its construction
RepelFrom(rooms, index, i) ==
    IF i > Len(rooms) THEN rooms
    ELSE RepelFrom(WithPolygon(rooms, i,
                               Translate(rooms[i].polygon,
                                         Repulsion(rooms, index, i)[1],
                                         Repulsion(rooms, index, i)[2])),
                   index, i + 1)

RECURSIVE BoundaryPull(_, _, _, _)
\* "Scale down until contained": d2 is twice the vector from the centroid
\* of the boundary to that of the room, scale in thousandths
BoundaryPull(poly, plot, d2, scale) ==
    IF Contains(plot, poly) \/ scale <= 100 THEN poly
    ELSE BoundaryPull(Translate(poly, -Quot(d2[1] * (1000 - scale), 2000),
                                      -Quot(d2[2] * (1000 - scale), 2000)),
                      plot, d2, Quot(scale * 9, 10))

\* the snap of every room, then "Ensure rooms stay in boundary"
SnapAndContain(rooms, plot) ==
    [i \in 1..Len(rooms) |->
       [rooms[i] EXCEPT
          !.polygon =
             BoundaryPull(snap_to_grid(@, grid_snap), plot,
                          VSub(Centroid2(snap_to_grid(@, grid_snap)), Centroid2(plot)),
                          900)]]

deterministic_local_improve(state, req) ==
    SnapAndContain(RepelFrom(CopyAll(state), SpatialIndex(CopyAll(state)), 1),
                   req.plot)

(***************************************************************************)
(* run_sa                                                                  *)
(***************************************************************************)
\* the draws of the generator in propose_move: np.random.normal for the
\* translation, np.random.uniform for the resize factor (in thousandths)
\* and for the point of the hop
TranslateDraws == {<<1200, 0>>, <<-300, 0>>, <<0, 5>>}
ResizeDraws == {900, 1100}
HopDraws == {<<1000, 3000>>}

\* rotate has probability 0 while allow_rotations is off
MoveDraws ==
    {[type |-> "translate", a |-> d[1], b |-> d[2]] : d \in TranslateDraws}
    \cup {[type |-> "resize", a |-> f, b |-> 0] : f \in ResizeDraws}
    \cup {[type |-> "vastu_hop", a |-> h[1], b |-> h[2]] : h \in HopDraws}
    \cup {[type |-> "align", a |-> 0, b |-> 0]}

\* the draws u of np.random.random(), in thousandths
AcceptDraws == {0, 500, 999}

\* -ln(u) in thousandths; for u = 0 the bound above which np.exp gives 0.0
NegLog1000(u) ==
    CASE u = 0 -> 745133
      [] u = 500 -> 693
      [] OTHER -> 1

\* delta_e < 0 or u < exp(-delta_e / temperature)
Accepts(delta_e, u) ==
    \/ delta_e < 0
    \/ /\ delta_e < 1000 * SAScale
       /\ delta_e * 1000 < NegLog1000(u) * temperature

\* what run_sa returns: SolverState(rooms = best)
Returned(best_rooms, current_rooms) == best_rooms

\* a loop that goes on whatever the stall counter
ContinuesWhileIterationsLeft(iters, stall) == iters < sa_params.max_iters

\* the condition of the while loop
Continues(iters, stall) ==
    iters < sa_params.max_iters /\ stall < sa_params.stall_patience

\* the polygons of a list of rooms
Polygons(rooms) == [i \in 1..Len(rooms) |-> rooms[i].polygon]

\* current = [r.copy() for r in initial_state.rooms] with its energy e;
\* best = current.copy() is a new list of the same objects
Started(h, ids, e) ==
    /\ heap' = h
    /\ current' = ids
    /\ current_energy' = e
    /\ best' = ids
    /\ best_energy' = e
    /\ min_energy' = e
    /\ min_layout' = Polygons(Deref(h, ids))
    /\ best_stored' = Deref(h, ids)

SAStart ==
    /\ sa_pc = "idle"
    /\ Started(heap \o CopyAll(Deref(heap, initial_rooms)),
               Fresh(heap, Len(initial_rooms)),
               compute_energy(CopyAll(Deref(heap, initial_rooms)), sa_req,
                              phi_room_types))
    /\ temperature' = T0
    /\ iteration' = 0
    /\ stall_count' = 0
    /\ sa_pc' = "loop"
    /\ UNCHANGED <<sa_req, phi_room_types, sa_params, initial_rooms, use_rtree,
                   candidate, candidate_energy, accepted, result, improved,
                   quiet>>
    /\ UNCHANGED <<placer_vars, lib_vars>>

\* the test of the while loop, and the return after it
SALoop ==
    /\ sa_pc = "loop"
    /\ IF Continues(iteration, stall_count)
       THEN sa_pc' = "repair" /\ result' = result
       ELSE sa_pc' = "returned" /\ result' = Returned(best, current)
    /\ UNCHANGED <<sa_req, phi_room_types, sa_params, initial_rooms, use_rtree,
                   heap, current, current_energy, best, best_energy,
                   candidate, candidate_energy, temperature, iteration,
                   stall_count, accepted, min_energy, min_layout, best_stored,
                   improved, quiet>>
    /\ UNCHANGED <<placer_vars, lib_vars>>

\* best = [r.copy() for r in current], the copies allocated after h
NewBest(h, rooms, e) ==
    /\ heap' = h \o CopyAll(rooms)
    /\ best' = Fresh(h, Len(rooms))
    /\ best_energy' = e
    /\ best_stored' = CopyAll(rooms)
    /\ stall_count' = 0
    /\ improved' = TRUE

\* the rooms of the local improvement become current, with their energy e
Repaired(rooms, e) ==
    /\ current' = Fresh(heap, Len(rooms))
    /\ current_energy' = e
    /\ min_energy' = Min(min_energy, e)
    /\ min_layout' = IF e < min_energy THEN Polygons(rooms) ELSE min_layout
    /\ IF e < best_energy
       THEN NewBest(heap \o rooms, rooms, e)
       ELSE /\ heap' = heap \o rooms
            /\ UNCHANGED <<best, best_energy, best_stored, stall_count, improved>>

RepairedTo(rooms) == Repaired(rooms, compute_energy(rooms, sa_req, phi_room_types))

\* "Periodic local improvement"
SALocalRepair ==
    /\ sa_pc = "repair"
    /\ IF iteration % sa_params.local_repair_interval = 0
       THEN RepairedTo(deterministic_local_improve(Deref(heap, current), sa_req))
       ELSE UNCHANGED <<heap, current, current_energy, min_energy, min_layout,
                        best, best_energy, best_stored, stall_count, improved>>
    /\ sa_pc' = "propose"
    /\ UNCHANGED <<sa_req, phi_room_types, sa_params, initial_rooms, use_rtree,
                   candidate, candidate_energy, temperature, iteration,
                   accepted, result, quiet>>
    /\ UNCHANGED <<placer_vars, lib_vars>>

Proposed(rooms) ==
    /\ heap' = heap \o rooms
    /\ candidate' = Fresh(heap, Len(rooms))
    /\ candidate_energy' = compute_energy(rooms, sa_req, phi_room_types)

\* "Generate candidate state": the candidate and its energy
SAPropose ==
    /\ sa_pc = "propose"
    /\ \E room_idx \in 1..Len(current), move \in MoveDraws :
          Proposed(propose_move(Deref(heap, current), sa_req, room_idx, move))
    /\ sa_pc' = "decide"
    /\ UNCHANGED <<sa_req, phi_room_types, sa_params, initial_rooms, use_rtree,
                   current, current_energy, best, best_energy, temperature,
                   iteration, stall_count, accepted, result, min_energy,
                   min_layout, best_stored, improved, quiet>>
    /\ UNCHANGED <<placer_vars, lib_vars>>

\* "Metropolis acceptance criterion" and "Update best solution"
SAMetropolis ==
    /\ sa_pc = "decide"
    /\ \E u \in AcceptDraws :
          IF Accepts(candidate_energy - current_energy, u)
          THEN /\ accepted' = TRUE
               /\ current' = candidate
               /\ current_energy' = candidate_energy
               /\ min_energy' = Min(min_energy, candidate_energy)
               /\ min_layout' = IF candidate_energy < min_energy
                                 THEN Polygons(Deref(heap, candidate))
                                 ELSE min_layout
               /\ IF candidate_energy < best_energy
                  THEN NewBest(heap, Deref(heap, candidate), candidate_energy)
                  ELSE /\ stall_count' = stall_count + 1
                       /\ UNCHANGED <<heap, best, best_energy, best_stored,
                                      improved>>
          ELSE /\ accepted' = FALSE
               /\ stall_count' = stall_count + 1
               /\ UNCHANGED <<heap, current, current_energy, min_energy,
                              min_layout, best, best_energy, best_stored,
                              improved>>
    /\ sa_pc' = "cool"
    /\ UNCHANGED <<sa_req, phi_room_types, sa_params, initial_rooms, use_rtree,
                   candidate, candidate_energy, temperature, iteration,
                   result, quiet>>
    /\ UNCHANGED <<placer_vars, lib_vars>>

\* "Cool system" and the end of the iteration
SACool ==
    /\ sa_pc = "cool"
    /\ temperature' = IF iteration % sa_params.cooling_step = 0
                      THEN Quot(temperature * alpha1000, 1000)
                      ELSE temperature
    /\ iteration' = iteration + 1
    /\ quiet' = IF improved THEN 0 ELSE quiet + 1
    /\ improved' = FALSE
    /\ sa_pc' = "loop"
    /\ UNCHANGED <<sa_req, phi_room_types, sa_params, initial_rooms, use_rtree,
                   heap, current, current_energy, best, best_energy,
                   candidate, candidate_energy, stall_count, accepted,
                   result, min_energy, min_layout, best_stored>>
    /\ UNCHANGED <<placer_vars, lib_vars>>

\* the bounds of the loop parameters the runs are made with
MaxIters == 3
MaxPatience == 2

\* a RoomState as its constructor leaves it
NewRoom(polygon) ==
    RoomState__post_init__([polygon |-> polygon, original_area |-> 0])

\* the plot of the runs and the layouts they start from
SAPlot == box(0, 0, 4000, 4000)
OverlappingLayout ==
    <<NewRoom(box(500, 1000, 2500, 3000)), NewRoom(box(2000, 1000, 4000, 3000))>>
ApartLayout ==
    <<NewRoom(box(0, 0, 1500, 2000)), NewRoom(box(2500, 2000, 4000, 4000))>>

InitSA ==
    /\ request \in RequestsOf({NoRooms}, {SmallPlot}, {"rectangular"}, {NoConstraints})
    /\ request.seed = NoSeed
    /\ rng = 0
    /\ PlacerIdle
    /\ sa_req \in {[has_area |-> a, area |-> <<4000000, 4000000>>,
                    adjacency |-> {<<1, 2>>}, plot |-> SAPlot] : a \in BOOLEAN}
    /\ phi_room_types = <<"living">>
    /\ sa_params \in {[max_iters |-> m, stall_patience |-> q,
                       local_repair_interval |-> k, cooling_step |-> 10] :
                         m \in 0..MaxIters, q \in 1..MaxPatience,
                         k \in {1, 2}}
    /\ heap \in {OverlappingLayout, ApartLayout}
    /\ initial_rooms = <<1, 2>>
    /\ use_rtree \in BOOLEAN
    /\ RefinerIdle
    /\ LibIdle

NextSA ==
    \/ SAStart
    \/ SALoop
    \/ SALocalRepair
    \/ SAPropose
    \/ SAMetropolis
    \/ SACool

\* one call of run_sa
SpecSA == InitSA /\ [][NextSA]_vars

\* the control points of run_sa
SAControl == {"idle", "loop", "repair", "propose", "decide", "cool", "returned"}

\* the interpreter moves on to the next statement block of run_sa: every
\* step of NextSA changes sa_pc, and one is enabled at each control point
\* but "returned"
ControlAdvances ==
    /\ sa_pc # "returned"
    /\ \E p \in SAControl \ {sa_pc} : sa_pc' = p

\* run_sa under the scheduling of a sequential program: a call that has
\* not returned keeps executing
SpecSAFair == SpecSA /\ WF_sa_pc(ControlAdvances)

(***************************************************************************)
(* Vocabulary of the properties                                            *)
(***************************************************************************)
\* the point lies in the plot region of the shape the solver works with
InPlot(p) ==
    IF plot_shape = "irregular" /\ plot_polygon # <<>>
    THEN _point_in_polygon(p)
    ELSE IF plot_shape = "circular" /\ plot_circle.set
    THEN Dot(VSub(p, plot_circle.center), VSub(p, plot_circle.center))
         <= plot_circle.radius * plot_circle.radius
    ELSE IF plot_shape = "triangular"
    THEN p[1] >= 0 /\ p[2] >= 0
         /\ p[1] * plot_length + p[2] * plot_width <= plot_width * plot_length
    ELSE 0 <= p[1] /\ p[1] <= plot_width /\ 0 <= p[2] /\ p[2] <= plot_length

\* the four corners of the room of the response are in the plot
CornersInPlot(room) ==
    /\ InPlot(<<room.x, room.y>>)
    /\ InPlot(<<room.x + room.width, room.y>>)
    /\ InPlot(<<room.x + room.width, room.y + room.height>>)
    /\ InPlot(<<room.x, room.y + room.height>>)

\* a warning of the kind among the warnings
Warned(ws, kind) == \E k \in 1..Len(ws) : ws[k].kind = kind

\* some pair of rooms overlaps at the positions the solver holds
SomeOverlap ==
    \E i, j \in 1..Len(room_order) :
        i < j /\ _check_overlap(room_order[i], room_order[j])

\* x, y, width and height of every room of a response
Geometry(resp) ==
    [i \in 1..Len(resp.rooms) |->
       <<resp.rooms[i].x, resp.rooms[i].y, resp.rooms[i].width,
         resp.rooms[i].height>>]

\* the request has rooms of both kinds
TwoPhase == indoor_rooms # <<>> /\ outdoor_rooms # <<>>

\* the energy compute_energy gives for the objects of a list
EnergyOf(ids) == compute_energy(Deref(heap, ids), sa_req, phi_room_types)

\* some room of the list is not contained in the plot polygon
PolygonEscaped(ids) ==
    \E i \in 1..Len(ids) : ~Contains(sa_req.plot, heap[ids[i]].polygon)

\* run_sa is inside the body of its loop
InLoopBody == sa_pc \in {"repair", "propose", "decide", "cool"}

(***************************************************************************)
(* The properties                                                          *)
(***************************************************************************)
\* C1: at the return of solve, if two rooms overlap at the final positions
\* and dimensions (by _check_overlap) then the warnings of the response
\* hold the overlap warning
C1_OverlapIsWarned ==
    pc = "done" => (SomeOverlap => Warned(response.warnings, "overlaps"))

C1_Witness ==
    pc = "done" /\ SomeOverlap /\ Warned(response.warnings, "overlaps")

\* C2: every room of the response has its four corners in the plot, or the
\* warnings of the response hold a message about the boundary violation
C2_ContainedOrWarned ==
    pc = "done" =>
        \A i \in 1..Len(response.rooms) :
            \/ CornersInPlot(response.rooms[i])
            \/ Warned(response.warnings, "boundary_violation")

\* C3: in a two-phase solve every indoor room keeps, up to the response, the
\* position it had when fixed_nodes was set
C3_IndoorFrozen ==
    (TwoPhase /\ fixed_nodes # {} /\ pc \in {"sim", "resolve", "resolved", "final", "done"}) =>
        \A r \in fixed_nodes : positions[r] = frozen[r]

\* C4: run_sa returns the best-seen layout: at the return, the energy of
\* the returned layout equals the least energy of the layouts that were
\* current during the run
C4_ReturnedEnergyIsLeast ==
    sa_pc = "returned" => EnergyOf(result) = min_energy

\* what run_sa does keep of its best: the stored best objects are never
\* modified after they are stored, best_energy is the least energy computed
\* for a layout that was current, and the returned rooms are the stored
\* best, with the polygons of that least-energy layout
BestSeenIsKept ==
    /\ sa_pc # "idle" => /\ Deref(heap, best) = best_stored
                         /\ best_energy = min_energy
                         /\ Polygons(best_stored) = min_layout
    /\ sa_pc = "returned" =>
          /\ Deref(heap, result) = best_stored
          /\ EnergyOf(result) <= min_energy
          /\ (sa_req.has_area => EnergyOf(result) = min_energy)
          /\ EnergyOf(result) <= EnergyOf(initial_rooms)

\* C5: with a seed in the request, a call of solve_floor_plan returns the
\* room geometry the previous call with the same request returned,
\* whatever the generator held before either call
C5_SeededCallsAgree ==
    (pc = "done" /\ prev_response.done /\ request.seed # NoSeed) =>
        Geometry(response) = Geometry(prev_response.response)

C5_Witness ==
    /\ pc = "done" /\ prev_response.done /\ request.seed # NoSeed
    /\ Len(response.rooms) = 2
    /\ Geometry(response) = Geometry(prev_response.response)

\* C6: without a seed, a call of solve_floor_plan returns the room geometry
\* the previous call with the same request returned
C6_UnseededCallsAgree ==
    (pc = "done" /\ prev_response.done /\ request.seed = NoSeed) =>
        Geometry(response) = Geometry(prev_response.response)

\* C7: after a physics step the centre of every room is in the plot region
C7_CentresInPlot ==
    (pc = "sim" /\ sim_iteration >= 1) =>
        \A r \in DOMAIN positions : InPlot(positions[r])

\* C8: a candidate with a room outside the plot polygon never becomes the
\* current layout and never becomes the best-seen layout
C8_EscapedCandidateRejected ==
    (candidate # <<>> /\ PolygonEscaped(candidate)) =>
        /\ current # candidate
        /\ Polygons(best_stored) # Polygons(Deref(heap, candidate))

\* C9: run_sa terminates; its loop makes at most max_iters iterations, no
\* iteration starts while the stall counter is at or above stall_patience,
\* and none runs once stall_patience iterations in a row have passed
\* without an improvement of the best-seen energy
C9_Terminates ==
    /\ [](/\ iteration <= sa_params.max_iters
          /\ InLoopBody => /\ iteration < sa_params.max_iters
                           /\ quiet < sa_params.stall_patience
          /\ sa_pc = "repair" => stall_count < sa_params.stall_patience)
    /\ <>(sa_pc = "returned")

C9_Witness ==
    /\ sa_pc = "returned"
    /\ iteration < sa_params.max_iters
    /\ sa_params.stall_patience >= 2
    /\ quiet >= sa_params.stall_patience

\* C10: for a request without rooms solve returns no response
C10_EmptyRoomsRejected ==
    request.rooms = <<>> => (response = NoResponse /\ sim_iteration = 0 /\ iterations = 0)

\* the request names an irregular plot and gives no polygon of three vertices
\* or more
UnusablePolygon ==
    /\ request.plot_shape = "irregular"
    /\ Len(request.constraints.plot_polygon) < 3

\* C11: a request for an irregular plot without a usable polygon is rejected:
\* no room is placed, no simulation step is taken and no response is built
C11_UnusablePolygonRejected ==
    UnusablePolygon => /\ positions = EmptyMap
                       /\ sim_iteration = 0
                       /\ response = NoResponse

\* the two room types of an edge of a graph
EndTypes(graph, e) == {graph.nodes[id].room_type : id \in e.ends}

\* the critical adjacencies: kitchen-dining and master_bedroom-bathroom
CriticalEdge(graph, e) ==
    EndTypes(graph, e) \in {{"kitchen", "dining"}, {"master_bedroom", "bathroom"}}

\* C12: in the graph _build_adjacency_graph returned for the simulation,
\* every critical edge has weight 2.0 and every other edge weight 1.0,
\* whatever the order of the rooms in the request
C12_CriticalEdgesWeighTwo ==
    \A e \in sim_graph.edges :
        e.weight = IF CriticalEdge(sim_graph, e) THEN 2 ELSE 1

\* C13: in the response, the direction of every room is the compass zone of
\* its final centre, the value of _infer_direction_from_pos there
C13_DirectionIsZoneOfCentre ==
    pc = "done" =>
        \A i \in 1..Len(response.rooms) :
            response.rooms[i].direction =
                _infer_direction_from_pos(positions[response.rooms[i].id])

\* C14: no run of the simulation takes more than max_iterations steps, and
\* the response reports converged exactly when no run of the simulation of
\* this solve (phase 1, phase 2) returned at the iteration cap
C14_ConvergedReportsEveryRun ==
    /\ sim_iteration <= max_iterations
    /\ pc = "done" => (response.converged <=> ~capped)

\* _run_simulation is about to take a physics step
PhysicsStepHere == pc = "sim" /\ sim_iteration < max_iterations /\ ~ForcesRaise

\* C15: a physics step leaves the position of every room of fixed_nodes as
\* it was and its velocity zero, whatever the forces; every other room gets
\* the velocity (v + F) * damping and the position moved by it and projected
\* back into the plot
C15_FixedNodesKept ==
    [][PhysicsStepHere =>
         /\ \A r \in fixed_nodes :
               /\ positions'[r] = positions[r]
               /\ velocities'[r] = Zero2
         /\ \A r \in DOMAIN positions \ fixed_nodes :
               /\ velocities'[r] =
                     NewVelocity(velocities[r],
                                 _calculate_all_forces(sim_graph).forces[r])
               /\ positions'[r] =
                     EnforceBoundary(Displaced(positions[r], velocities'[r]),
                                     dimensions[r][1], dimensions[r][2])]_vars

\* a step of phase 2 was taken: a fixed room under a force stands where it
\* was frozen, at rest, while another room moves
C15_Witness ==
    /\ pc = "sim" /\ phase = 2 /\ sim_iteration >= 1
    /\ \E r \in fixed_nodes :
          /\ _calculate_all_forces(sim_graph).forces[r] # Zero2
          /\ positions[r] = frozen[r]
          /\ velocities[r] = Zero2
    /\ \E o \in DOMAIN positions \ fixed_nodes : velocities[o] # Zero2

\* the room of the request with the given id is outdoor: by its type, or
\* named by id or type in outdoor_fixtures
OutdoorRoom(room_id) ==
    \E i \in 1..Len(request.rooms) :
        request.rooms[i].id = room_id /\ _is_room_outdoor(request.rooms[i])

\* what the repulsion step of _calculate_all_forces adds to the net forces
\* for the pair (a, b)
PairRepulsion(a, b) ==
    RepulsePair(sim_graph,
                [forces |-> [r \in DOMAIN positions |-> Zero2], rng |-> rng],
                a, b).forces

\* C16: for a pair of rooms without an adjacency edge, the repulsive force
\* goes to the outdoor room only when exactly one of the two is outdoor, and
\* to both rooms with opposite signs otherwise
C16_RepulsionSparesIndoor ==
    pc = "sim" =>
        \A k \in 1..Len(PairsOf(Len(room_order))) :
            LET a == room_order[PairsOf(Len(room_order))[k][1]]
                b == room_order[PairsOf(Len(room_order))[k][2]]
                force == _calculate_repulsive_force(a, b, rng)[1]
            IN  ~has_edge(sim_graph, a, b) =>
                    IF OutdoorRoom(a) /\ ~OutdoorRoom(b)
                    THEN PairRepulsion(a, b)[a] = force
                         /\ PairRepulsion(a, b)[b] = Zero2
                    ELSE IF OutdoorRoom(b) /\ ~OutdoorRoom(a)
                    THEN PairRepulsion(a, b)[b] = VNeg(force)
                         /\ PairRepulsion(a, b)[a] = Zero2
                    ELSE PairRepulsion(a, b)[a] = force
                         /\ PairRepulsion(a, b)[b] = VNeg(force)

\* the solver holds a layout: positions and dimensions of the rooms placed
LayoutHeld == pc \in {"sim", "resolve", "resolved", "phase2", "final", "done"}

\* C17: the score _calculate_score gives for the layout the solver holds is
\* in [0, 100] at every point of the solve, and so is the score of the
\* response
C17_ScoreInRange ==
    /\ LayoutHeld => _calculate_score(sim_graph) \in 0..(100 * 100)
    /\ pc = "done" => response.score \in 0..(100 * 100)

\* a response whose score was raised to 0: the penalties of its layout of
\* overlapping rooms that leave the plot sum to more than 100
C17_Witness ==
    /\ pc = "done"
    /\ RawScore(G) < 0
    /\ response.score = 0

(***************************************************************************)
(* constraint_solver.SpatialIndex.  Lengths are in units of Scale; a room  *)
(* is the dict of its x, y, width and height.                              *)
(***************************************************************************)
\* SpatialIndex(cell_size=5.0)
cell_size == 5 * Scale

\* only the cell of the corner (x, y)
_get_cells_of_corner(x, y, width, height) ==
    {<<Quot(x, cell_size), Quot(y, cell_size)>>}

\* _get_cells: int() truncates towards zero
_get_cells(x, y, width, height) ==
    {<<cx, cy>> : cx \in Quot(x, cell_size)..Quot(x + width, cell_size),
                  cy \in Quot(y, cell_size)..Quot(y + height, cell_size)}

CellsOfRoom(room) == _get_cells(room.x, room.y, room.width, room.height)

\* self.grid.get(cell, [])
GridGet(grid, cell) == IF cell \in DOMAIN grid THEN grid[cell] ELSE << >>

\* SpatialIndex.insert: the defaultdict makes the list of a new cell
insert(grid, room_idx, room) ==
    [cell \in DOMAIN grid \cup CellsOfRoom(room) |->
        IF cell \in CellsOfRoom(room)
        THEN Append(GridGet(grid, cell), room_idx)
        ELSE grid[cell]]

\* SpatialIndex.query_potential_overlaps
query_potential_overlaps(grid, room) ==
    UNION {{GridGet(grid, cell)[k] : k \in 1..Len(GridGet(grid, cell))} :
             cell \in CellsOfRoom(room)}

\* EnhancedConstraintSolver._check_overlap of constraint_solver.py, with
\* margin 0
RoomsOverlap(room1, room2) ==
    /\ room1.x < room2.x + room2.width
    /\ room1.x + room1.width > room2.x
    /\ room1.y < room2.y + room2.height
    /\ room1.y + room1.height > room2.y

\* the inserts made between two calls of clear
MaxInserts == 3

Room(x, y, width, height) == [x |-> x, y |-> y, width |-> width, height |-> height]

\* the rooms given to the index: left of and below the origin, across it,
\* inside one cell and over several cells
CiRooms ==
    {Room(-750, -250, 400, 200), Room(-400, -200, 300, 300),
     Room(-200, -200, 400, 400), Room(100, 100, 1200, 300),
     Room(1200, 200, 200, 200), Room(600, 600, 300, 300)}

CiIndices == {0, 1}

\* self.spatial_index.insert(idx, room)
CiInsert ==
    /\ Len(ci_inserted) < MaxInserts
    /\ \E room_idx \in CiIndices, room \in CiRooms :
         /\ ci_grid' = insert(ci_grid, room_idx, room)
         /\ ci_inserted' = Append(ci_inserted, [idx |-> room_idx, room |-> room])
    /\ ci_op' = "insert"
    /\ UNCHANGED <<ci_room, ci_candidates>>
    /\ UNCHANGED <<placer_vars, sa_vars, ix_vars, pip_vars, pg_vars, fn_vars>>

\* candidates = self.spatial_index.query_potential_overlaps(test_room)
CiQuery ==
    /\ \E room \in CiRooms :
         /\ ci_room' = room
         /\ ci_candidates' = query_potential_overlaps(ci_grid, room)
    /\ ci_op' = "query"
    /\ UNCHANGED <<ci_grid, ci_inserted>>
    /\ UNCHANGED <<placer_vars, sa_vars, ix_vars, pip_vars, pg_vars, fn_vars>>

\* self.spatial_index.clear()
CiClear ==
    /\ ci_grid' = << >>
    /\ ci_inserted' = << >>
    /\ ci_op' = "clear"
    /\ UNCHANGED <<ci_room, ci_candidates>>
    /\ UNCHANGED <<placer_vars, sa_vars, ix_vars, pip_vars, pg_vars, fn_vars>>

\* no solver is running
SolversIdle ==
    /\ request \in RequestsOf({NoRooms}, {SmallPlot}, {"rectangular"},
                              {NoConstraints})
    /\ request.seed = NoSeed
    /\ rng = 0
    /\ PlacerIdle
    /\ NoRefinement

InitCellIndex == SolversIdle /\ LibIdle

NextCellIndex == CiInsert \/ CiQuery \/ CiClear

\* a caller of constraint_solver.SpatialIndex: any sequence of insert,
\* query_potential_overlaps and clear
SpecCellIndex == InitCellIndex /\ [][NextCellIndex]_vars

\* the inserts since the last clear whose room overlaps the given room
OverlappingInserted(room) ==
    {ci_inserted[k].idx : k \in {j \in 1..Len(ci_inserted) :
                                   RoomsOverlap(ci_inserted[j].room, room)}}

\* C18: query_potential_overlaps(r) returns every index inserted since the
\* last clear with a rectangle that overlaps r, wherever the rectangles lie
\* and however many cells they span; with nothing inserted since the last
\* clear it returns the empty set, and directly after clear every query
\* would
C18_CandidatesCoverOverlaps ==
    /\ ci_op = "query" =>
         /\ OverlappingInserted(ci_room) \subseteq ci_candidates
         /\ (ci_inserted = << >> => ci_candidates = {})
    /\ ci_op = "clear" =>
         \A room \in CiRooms : query_potential_overlaps(ci_grid, room) = {}

\* a query that finds a room inserted left of the origin over two cells,
\* and returns more than the overlapping rooms
C18_Witness ==
    /\ ci_op = "query"
    /\ \E k \in 1..Len(ci_inserted) :
         /\ ci_inserted[k].room.x < 0
         /\ Cardinality(CellsOfRoom(ci_inserted[k].room)) > 1
         /\ ci_inserted[k].room # ci_room
         /\ RoomsOverlap(ci_inserted[k].room, ci_room)
         /\ ci_inserted[k].idx \in ci_candidates
    /\ ci_candidates # OverlappingInserted(ci_room)

(***************************************************************************)
(* graph_solver_impl.SpatialIndex in deterministic_local_improve: the      *)
(* index is built once over the list improved, and the loop that follows   *)
(* queries it for each room and moves the room.                            *)
(***************************************************************************)
\* the layouts passed as state: a room that overlaps its left neighbour,
\* and a right neighbour at a gap of 0.05 m, of 0.3 m, or across a line of
\* the grid; or all of it left of and below the origin
LeftRooms == {box(0, 1000, 1500, 3000), box(-3000, -2000, -1500, 0)}
MiddleRooms ==
    {box(1000, 1000, 2450, 3000), box(1000, 1000, 2950, 3000),
     box(1600, 1000, 2450, 3000), box(-2000, -2000, -550, 0)}
RightRooms ==
    {box(2500, 1000, 4000, 3000), box(3000, 1000, 4000, 3000),
     box(2700, 3000, 4000, 4000), box(-500, -2000, 1000, 0)}
RoomOrders == {<<1, 2, 3>>, <<2, 1, 3>>, <<3, 2, 1>>}

IndexedLayouts ==
    {[i \in 1..3 |-> NewRoom(<<m, l, r>>[o[i]])] :
        l \in LeftRooms, m \in MiddleRooms, r \in RightRooms, o \in RoomOrders}

\* improved = [r.copy() for r in state]; spatial_index = SpatialIndex(improved)
LocalImproveStart ==
    /\ ix_pc = "idle"
    /\ ix_rooms' = CopyAll(ix_rooms)
    /\ ix_index' = SpatialIndex(CopyAll(ix_rooms))
    /\ ix_i' = 1
    /\ ix_pc' = "query"
    /\ UNCHANGED ix_overlaps
    /\ UNCHANGED <<placer_vars, sa_vars, ci_vars, pip_vars, pg_vars, fn_vars>>

\* overlaps = spatial_index.query_overlaps(room.polygon)
LocalImproveQuery ==
    /\ ix_pc = "query"
    /\ ix_i <= Len(ix_rooms)
    /\ ix_overlaps' = query_overlaps(ix_index, ix_rooms, ix_rooms[ix_i].polygon)
    /\ ix_pc' = "move"
    /\ UNCHANGED <<ix_rooms, ix_index, ix_i>>
    /\ UNCHANGED <<placer_vars, sa_vars, ci_vars, pip_vars, pg_vars, fn_vars>>

\* the repulsion from the rooms of overlaps, and room.polygon =
\* affinity.translate(...)
LocalImproveMove ==
    /\ ix_pc = "move"
    /\ ix_rooms' = WithPolygon(ix_rooms, ix_i,
                               Translate(ix_rooms[ix_i].polygon,
                                         Repulsion(ix_rooms, ix_index, ix_i)[1],
                                         Repulsion(ix_rooms, ix_index, ix_i)[2]))
    /\ ix_i' = ix_i + 1
    /\ ix_pc' = "query"
    /\ UNCHANGED <<ix_index, ix_overlaps>>
    /\ UNCHANGED <<placer_vars, sa_vars, ci_vars, pip_vars, pg_vars, fn_vars>>

\* "Snap to grid", "Ensure rooms stay in boundary", return improved
LocalImproveReturn ==
    /\ ix_pc = "query"
    /\ ix_i > Len(ix_rooms)
    /\ ix_rooms' = SnapAndContain(ix_rooms, SAPlot)
    /\ ix_pc' = "returned"
    /\ UNCHANGED <<ix_index, ix_i, ix_overlaps>>
    /\ UNCHANGED <<placer_vars, sa_vars, ci_vars, pip_vars, pg_vars, fn_vars>>

\* the state argument is any of the layouts; rtree can be imported or not
InitLocalImprove ==
    /\ request \in RequestsOf({NoRooms}, {SmallPlot}, {"rectangular"},
                              {NoConstraints})
    /\ request.seed = NoSeed
    /\ rng = 0
    /\ PlacerIdle
    /\ sa_req = [has_area |-> FALSE, area |-> <<>>, adjacency |-> {},
                 plot |-> SAPlot]
    /\ phi_room_types = <<>>
    /\ sa_params = [max_iters |-> 0, stall_patience |-> 0,
                    local_repair_interval |-> 1, cooling_step |-> 1]
    /\ initial_rooms = <<>>
    /\ use_rtree \in BOOLEAN
    /\ heap = <<>>
    /\ RefinerIdle
    /\ CiIdle /\ PipIdle /\ PgIdle /\ FnIdle
    /\ ix_pc = "idle" /\ ix_rooms \in IndexedLayouts
    /\ ix_index = [bounds |-> << >>, use_rtree |-> FALSE]
    /\ ix_i = 0 /\ ix_overlaps = {}

NextLocalImprove ==
    \/ LocalImproveStart
    \/ LocalImproveQuery
    \/ LocalImproveMove
    \/ LocalImproveReturn

\* one call of deterministic_local_improve
SpecLocalImprove == InitLocalImprove /\ [][NextLocalImprove]_vars

\* the rooms whose polygon intersects the given polygon
Intersecting(rooms, polygon) ==
    {j \in 1..Len(rooms) : Intersects(polygon, rooms[j].polygon)}

\* the index on the other path: grid for rtree, rtree for grid
OtherPath(index) == [index EXCEPT !.use_rtree = ~@]

\* C19: query_overlaps(p) returns exactly the rooms whose polygon
\* intersects p, and the grid path and the R-tree path return the same set
C19_QueryOverlapsExact ==
    ix_pc = "move" =>
      /\ ix_overlaps = Intersecting(ix_rooms, ix_rooms[ix_i].polygon)
      /\ ix_overlaps = query_overlaps(OtherPath(ix_index), ix_rooms,
                                      ix_rooms[ix_i].polygon)

\* the rooms have the polygons the index was built over
RoomsAsIndexed ==
    \A j \in 1..Len(ix_rooms) : ix_rooms[j].polygon = ix_index.bounds[j]

\* while no room has moved since the index was built, query_overlaps is
\* exact and the same on both paths
ExactWhileRoomsKeepStill ==
    (ix_pc = "move" /\ RoomsAsIndexed) =>
      /\ ix_overlaps = Intersecting(ix_rooms, ix_rooms[ix_i].polygon)
      /\ ix_overlaps = query_overlaps(OtherPath(ix_index), ix_rooms,
                                      ix_rooms[ix_i].polygon)

(***************************************************************************)
(* geometry_utils.point_in_polygon on its own.  The coordinates are the    *)
(* numbers of test_geometry_utils.py.                                      *)
(***************************************************************************)
\* the side of the square of test_point_in_polygon_and_projection
SquareSide == 10
\* how far outside the square the points go
PipMargin == 1

\* the square of the test, the same square clockwise, and the triangle of
\* test_triangle_centroid_and_inradius
PipPolygons ==
    {<< <<0, 0>>, <<SquareSide, 0>>, <<SquareSide, SquareSide>>, <<0, SquareSide>> >>,
     << <<0, 0>>, <<0, SquareSide>>, <<SquareSide, SquareSide>>, <<SquareSide, 0>> >>,
     << <<0, 0>>, <<4, 0>>, <<0, 3>> >>}

PipPoints ==
    {<<x, y>> : x \in (0 - PipMargin)..(SquareSide + PipMargin),
                y \in (0 - PipMargin)..(SquareSide + PipMargin)}

\* inside = point_in_polygon(point, polygon)
PointInPolygonCall ==
    /\ pip_pc = "idle"
    /\ pip_inside' = point_in_polygon(pip_point, pip_polygon)
    /\ pip_pc' = "returned"
    /\ UNCHANGED <<pip_point, pip_polygon>>
    /\ UNCHANGED <<placer_vars, sa_vars, ci_vars, ix_vars, pg_vars, fn_vars>>

InitPointInPolygon ==
    /\ SolversIdle
    /\ CiIdle /\ IxIdle /\ PgIdle /\ FnIdle
    /\ pip_pc = "idle"
    /\ pip_point \in PipPoints
    /\ pip_polygon \in PipPolygons
    /\ pip_inside = FALSE

NextPointInPolygon == PointInPolygonCall

\* one call of point_in_polygon for each point and polygon
SpecPointInPolygon == InitPointInPolygon /\ [][NextPointInPolygon]_vars

\* twice the signed area of the triangle a, b, pt
SideOf(a, b, pt) ==
    (b[1] - a[1]) * (pt[2] - a[2]) - (b[2] - a[2]) * (pt[1] - a[1])

EdgeEnd(polygon, i) == polygon[(i % Len(polygon)) + 1]

\* pt lies on the segment a-b
OnSegment(a, b, pt) ==
    /\ SideOf(a, b, pt) = 0
    /\ Min(a[1], b[1]) <= pt[1] /\ pt[1] <= Max(a[1], b[1])
    /\ Min(a[2], b[2]) <= pt[2] /\ pt[2] <= Max(a[2], b[2])

\* pt lies on an edge or at a vertex of the polygon
OnBoundary(pt, polygon) ==
    \E i \in 1..Len(polygon) : OnSegment(polygon[i], EdgeEnd(polygon, i), pt)

\* pt lies in the interior of a convex polygon: strictly on the same side
\* of every edge
InInterior(pt, polygon) ==
    \/ \A i \in 1..Len(polygon) : SideOf(polygon[i], EdgeEnd(polygon, i), pt) > 0
    \/ \A i \in 1..Len(polygon) : SideOf(polygon[i], EdgeEnd(polygon, i), pt) < 0

\* C20: point_in_polygon returns true for every point on an edge or at a
\* vertex of the polygon and for every interior point, and false for every
\* exterior point
C20_BoundaryCountsAsInside ==
    pip_pc = "returned" =>
      (pip_inside <=> (OnBoundary(pip_point, pip_polygon)
                         \/ InInterior(pip_point, pip_polygon)))

\* off the boundary point_in_polygon tells the interior from the exterior
InteriorAndExteriorTold ==
    (pip_pc = "returned" /\ ~OnBoundary(pip_point, pip_polygon)) =>
      (pip_inside <=> InInterior(pip_point, pip_polygon))

(***************************************************************************)
(* phi_grid.PhiGrid with its grids.  Lengths are in millimetres, values of *)
(* the field in thousandths.  The plot is a rectangle, held as its bounds. *)
(***************************************************************************)
\* VASTU_ZONES.get(room_type): None for a type without an entry
HasVastuZone(room_type) ==
    room_type \in {"pooja_room", "kitchen", "master_bedroom", "bedroom",
                   "living", "dining", "bathroom"}

\* self.nx, self.ny: int(np.ceil(extent / resolution))
GridCount(extent, resolution) == (extent + resolution - 1) \div resolution

\* np.linspace(lo, lo + extent, n)[i], to the millimetre
Linspace(lo, extent, n, i) == IF n <= 1 THEN lo ELSE lo + Quot(i * extent, n - 1)

\* the point of the grid in column i and row j (from 0)
GridPoint(plot, resolution, i, j) ==
    <<Linspace(plot[1], plot[3] - plot[1],
               GridCount(plot[3] - plot[1], resolution), i),
      Linspace(plot[2], plot[4] - plot[2],
               GridCount(plot[4] - plot[2], resolution), j)>>

\* the preferred centre of the type in the plot
ZoneCentre(plot, room_type) ==
    <<plot[1] + Quot(VASTU_ZONES(room_type).preferred[1] * (plot[3] - plot[1]), 4),
      plot[2] + Quot(VASTU_ZONES(room_type).preferred[2] * (plot[4] - plot[2]), 4)>>

\* grid[j, i] before "grid /= grid.max()": weight * exp(-d^2 / (2 sigma^2))
\* times the mask, in ten-thousandths
RawGrid(plot, resolution, room_type, i, j) ==
    IF ~ContainsPoint(plot, GridPoint(plot, resolution, i, j)[1],
                      GridPoint(plot, resolution, i, j)[2])
    THEN 0
    ELSE VASTU_ZONES(room_type).weight
         * Gauss(Quot(4 * Dot(VSub(GridPoint(plot, resolution, i, j),
                                   ZoneCentre(plot, room_type)),
                              VSub(GridPoint(plot, resolution, i, j),
                                   ZoneCentre(plot, room_type))),
                      SAScale * SAScale))

SetMax(S) == CHOOSE m \in S : \A v \in S : v <= m
SetMin(S) == CHOOSE m \in S : \A v \in S : m <= v

\* grid.max()
RawGridMax(plot, resolution, room_type) ==
    SetMax({RawGrid(plot, resolution, room_type, i, j) :
              i \in 0..(GridCount(plot[3] - plot[1], resolution) - 1),
              j \in 0..(GridCount(plot[4] - plot[2], resolution) - 1)})

\* "if grid.max() > 0: grid /= grid.max()"
Normalised(value, max) == IF max > 0 THEN Quot(value * 1000, max) ELSE value

\* self.grids[room_type][j, i]
GridAt(plot, resolution, room_type, i, j) ==
    Normalised(RawGrid(plot, resolution, room_type, i, j),
               RawGridMax(plot, resolution, room_type))

\* max(0, min(i, n - 1))
ClampIndex(i, n) == Max(0, Min(i, n - 1))

\* the four grid values _bilinear_interpolate reads, and the weights wx, wy
\* as multiples of 1 / resolution
Interpolant(plot, resolution, room_type, x, y) ==
    [i0 |-> ClampIndex((x - plot[1]) \div resolution,
                       GridCount(plot[3] - plot[1], resolution)),
     i1 |-> ClampIndex((x - plot[1]) \div resolution + 1,
                       GridCount(plot[3] - plot[1], resolution)),
     j0 |-> ClampIndex((y - plot[2]) \div resolution,
                       GridCount(plot[4] - plot[2], resolution)),
     j1 |-> ClampIndex((y - plot[2]) \div resolution + 1,
                       GridCount(plot[4] - plot[2], resolution)),
     wx |-> (x - plot[1])
            - resolution * ClampIndex((x - plot[1]) \div resolution,
                                      GridCount(plot[3] - plot[1], resolution)),
     wy |-> (y - plot[2])
            - resolution * ClampIndex((y - plot[2]) \div resolution,
                                      GridCount(plot[4] - plot[2], resolution))]

\* the values at the four corners
CornerValues(plot, resolution, room_type, q) ==
    [v00 |-> GridAt(plot, resolution, room_type, q.i0, q.j0),
     v01 |-> GridAt(plot, resolution, room_type, q.i1, q.j0),
     v10 |-> GridAt(plot, resolution, room_type, q.i0, q.j1),
     v11 |-> GridAt(plot, resolution, room_type, q.i1, q.j1)]

\* val of _bilinear_interpolate times resolution squared
Blend(resolution, q, v) ==
    (resolution - q.wx) * (resolution - q.wy) * v.v00
    + q.wx * (resolution - q.wy) * v.v01
    + (resolution - q.wx) * q.wy * v.v10
    + q.wx * q.wy * v.v11

\* PhiGrid._bilinear_interpolate, times resolution squared
_bilinear_interpolate(plot, resolution, room_type, x, y) ==
    Blend(resolution, Interpolant(plot, resolution, room_type, x, y),
          CornerValues(plot, resolution, room_type,
                       Interpolant(plot, resolution, room_type, x, y)))

\* the value sample_point computes when the plot contains the point:
\* self.grids has the types of room_types
InsideValue(plot, resolution, room_types, x, y, room_type) ==
    IF \A k \in 1..Len(room_types) : room_types[k] # room_type
    THEN 500
    ELSE Quot(_bilinear_interpolate(plot, resolution, room_type, x, y),
              resolution * resolution)

\* the interpolated or default value at any point, inside the plot or not
PointValueUnmasked(plot, resolution, room_types, x, y, room_type) ==
    InsideValue(plot, resolution, room_types, x, y, room_type)

\* the value sample_point computes on a miss of the cache
PointValue(plot, resolution, room_types, x, y, room_type) ==
    IF ~ContainsPoint(plot, x, y) THEN 0
    ELSE InsideValue(plot, resolution, room_types, x, y, room_type)

\* the entries self._cache may hold
MaxCache == 2

\* the plots with the resolution of their grid
PgGrids ==
    {[plot |-> box(0, 0, 6000, 3000), resolution |-> 1000],
     [plot |-> box(-3000, -1000, 0, 2000), resolution |-> 500]}

\* the room_types of the constructor: "pooja" (test_solvers.py) has no
\* entry in VASTU_ZONES
PgRoomTypes == {<< >>, <<"pooja">>, <<"kitchen">>, <<"pooja", "dining">>}

\* the room types asked for
PgTypes == {"pooja", "kitchen", "dining"}

\* the points asked for: left of the plot, in the first column, past the
\* centre and in the last column; on the lower side, past the centre, in
\* the last row and above the plot
PgXs(plot) ==
    {plot[1] - 500, plot[1] + 700, (plot[1] + plot[3]) \div 2 + 100, plot[3] - 100}
PgYs(plot) ==
    {plot[2], (plot[2] + plot[4]) \div 2 + 100, plot[4] - 100, plot[4] + 500}

\* phi.sample_point(x, y, room_type): from the cache, or computed and cached
SamplePoint ==
    /\ \E x \in PgXs(pg_plot), y \in PgYs(pg_plot), room_type \in PgTypes :
         /\ pg_key' = <<x, y, room_type>>
         /\ IF <<x, y, room_type>> \in DOMAIN pg_cache
            THEN /\ pg_val' = pg_cache[<<x, y, room_type>>]
                 /\ UNCHANGED pg_cache
            ELSE /\ Cardinality(DOMAIN pg_cache) < MaxCache
                 /\ pg_val' = PointValue(pg_plot, pg_resolution, pg_room_types,
                                         x, y, room_type)
                 /\ pg_cache' =
                      [k \in DOMAIN pg_cache \cup {<<x, y, room_type>>} |->
                         IF k = <<x, y, room_type>>
                         THEN PointValue(pg_plot, pg_resolution, pg_room_types,
                                         x, y, room_type)
                         ELSE pg_cache[k]]
    /\ UNCHANGED <<pg_plot, pg_room_types, pg_resolution>>
    /\ UNCHANGED <<placer_vars, sa_vars, ci_vars, ix_vars, pip_vars, fn_vars>>

\* a PhiGrid after its construction
InitPhiGrid ==
    /\ SolversIdle
    /\ CiIdle /\ IxIdle /\ PipIdle /\ FnIdle
    /\ \E g \in PgGrids : pg_plot = g.plot /\ pg_resolution = g.resolution
    /\ pg_room_types \in PgRoomTypes
    /\ pg_cache = << >> /\ pg_key = << >> /\ pg_val = 0

NextPhiGrid == SamplePoint

\* any sequence of calls of sample_point on one PhiGrid
SpecPhiGrid == InitPhiGrid /\ [][NextPhiGrid]_vars

\* the last call asked for a point strictly inside the plot
SampledInside ==
    pg_key # << >> /\ ContainsPoint(pg_plot, pg_key[1], pg_key[2])

\* C21: for a room type without an entry in VASTU_ZONES, sample_point
\* returns 0.5 at every point strictly inside the plot, whether or not the
\* type was among the room_types of the constructor
C21_UnlistedTypeIsUniform ==
    (SampledInside /\ ~HasVastuZone(pg_key[3])) => pg_val = 500

\* a type that was not among the room_types of the constructor has no
\* grid, and sample_point returns 0.5 for it inside the plot
TypeWithoutGridIsUniform ==
    (SampledInside /\ \A k \in 1..Len(pg_room_types) : pg_room_types[k] # pg_key[3])
      => pg_val = 500

\* the type asked for has a grid
HasGrid(room_types, room_type) ==
    \E k \in 1..Len(room_types) : room_types[k] = room_type

CornerSet(v) == {v.v00, v.v01, v.v10, v.v11}

\* the interpolated value lies between the least and the greatest of the
\* four grid values
BlendInRange(resolution, q, v) ==
    /\ Blend(resolution, q, v) >= resolution * resolution * SetMin(CornerSet(v))
    /\ Blend(resolution, q, v) <= resolution * resolution * SetMax(CornerSet(v))

InterpolatedInRange(plot, resolution, room_type, x, y) ==
    BlendInRange(resolution, Interpolant(plot, resolution, room_type, x, y),
                 CornerValues(plot, resolution, room_type,
                              Interpolant(plot, resolution, room_type, x, y)))

MaxSnaps == 2

\* coordinates on the grid, half way between two lines of the grid (on
\* either side of the origin) and elsewhere
SnapCoords == {-15, -7, 0, 5, 14, 25}

\* params.grid_snap = 0.01 m and a coarser grid
SnapGridSizes == {grid_snap, 4}

SnapPolygons ==
    {box(minx, miny, maxx, maxy) :
        minx \in SnapCoords, miny \in SnapCoords,
        maxx \in SnapCoords, maxy \in SnapCoords}

\* the polygon the next call is given: the result of the call before
SnapArgument == IF fn_out = << >> THEN fn_in.poly ELSE fn_out[Len(fn_out)]

\* room.polygon = snap_to_grid(room.polygon, params.grid_snap)
SnapCall ==
    /\ Len(fn_out) < MaxSnaps
    /\ fn_out' = Append(fn_out, snap_to_grid(SnapArgument, fn_in.grid_size))
    /\ fn_pc' = "returned"
    /\ UNCHANGED fn_in
    /\ UNCHANGED <<placer_vars, sa_vars, ci_vars, ix_vars, pip_vars, pg_vars>>

InitSnap ==
    /\ SolversIdle
    /\ CiIdle /\ IxIdle /\ PipIdle /\ PgIdle
    /\ fn_pc = "idle"
    /\ fn_in \in {[poly |-> p, grid_size |-> g] :
                    p \in {q \in SnapPolygons : q[1] < q[3] /\ q[2] < q[4]},
                    g \in SnapGridSizes}
    /\ fn_out = << >>

NextSnap == SnapCall

\* a polygon snapped up to MaxSnaps times
SpecSnap == InitSnap /\ [][NextSnap]_vars

\* every coordinate of every vertex is a multiple of g
OnGrid(poly, g) ==
    \A k \in 1..Len(ExteriorCoords(poly)) :
       /\ ExteriorCoords(poly)[k][1] % g = 0
       /\ ExteriorCoords(poly)[k][2] % g = 0

\* C23: snap_to_grid(snap_to_grid(p, g), g) has the vertices of
\* snap_to_grid(p, g), and every coordinate of the result is a multiple
\* of g
C23_SnapIdempotent ==
    /\ \A k \in 1..Len(fn_out) : OnGrid(fn_out[k], fn_in.grid_size)
    /\ \A k \in 2..Len(fn_out) :
         ExteriorCoords(fn_out[k]) = ExteriorCoords(fn_out[k - 1])

\* a polygon with a coordinate half way between two lines of the grid,
\* moved by the first snap and snapped again
C23_Witness ==
    /\ Len(fn_out) = 2
    /\ fn_in.grid_size = grid_snap
    /\ fn_in.poly[1] = -15 /\ fn_in.poly[3] = 25
    /\ fn_out[1] # fn_in.poly
    /\ fn_out[1][1] = -20 /\ fn_out[1][3] = 20

\* the plot is rectangular and as wide and as long as every room placed
RoomsFitRectangle ==
    /\ plot_shape = "rectangular"
    /\ \A r \in DOMAIN dimensions :
         dimensions[r][1] <= plot_width /\ dimensions[r][2] <= plot_length

\* the rectangle of the room, from its centre and its half extents, lies
\* within [0, plot_width] x [0, plot_length]
WithinPlot(r) ==
    /\ positions[r][1] - dimensions[r][1] \div 2 >= 0
    /\ positions[r][1] + dimensions[r][1] \div 2 <= plot_width
    /\ positions[r][2] - dimensions[r][2] \div 2 >= 0
    /\ positions[r][2] + dimensions[r][2] \div 2 <= plot_length

\* C24: on a rectangular plot in which every room fits, every room's
\* rectangle lies within the plot after initialization, after every physics
\* step and after every push of the overlap resolution, in both phases
C24_RoomsStayInRectangle ==
    RoomsFitRectangle => \A r \in DOMAIN positions : WithinPlot(r)

\* phase 2 of a solve on such a plot, in the overlap resolution after a
\* push that left a room against the side of the plot, the physics steps
\* of both phases behind it
C24_Witness ==
    /\ RoomsFitRectangle
    /\ phase = 2 /\ pc = "resolve" /\ overlaps_resolved > 0
    /\ fixed_nodes # {}
    /\ iterations > 0
    /\ \E r \in DOMAIN positions :
         \/ positions[r][1] - dimensions[r][1] \div 2 = 0
         \/ positions[r][1] + dimensions[r][1] \div 2 = plot_width

\* the pair the inner loop of _resolve_overlaps is at overlaps and is about
\* to be pushed
PairDetected ==
    /\ pc = "resolve"
    /\ pair <= Len(ResolvePairs)
    /\ _check_overlap(room_order[ResolvePairs[pair][1]],
                      room_order[ResolvePairs[pair][2]])

\* the squared distance of the centres of the two rooms before the push
CentresBefore(room1_id, room2_id) ==
    Dot(VSub(positions[room1_id], positions[room2_id]),
        VSub(positions[room1_id], positions[room2_id]))

\* and right after the push, before the boundaries are enforced
CentresAfter(room1_id, room2_id) ==
    Dot(VSub(PushCentres(room1_id, room2_id).p1, PushCentres(room1_id, room2_id).p2),
        VSub(PushCentres(room1_id, room2_id).p1, PushCentres(room1_id, room2_id).p2))

\* C25: for every pair detected as overlapping, the distance between the
\* two centres right after the push, before the re-projection into the
\* plot, is not smaller than before the push
C25_PushNeverNarrows ==
    PairDetected =>
      CentresAfter(room_order[ResolvePairs[pair][1]],
                   room_order[ResolvePairs[pair][2]])
        >= CentresBefore(room_order[ResolvePairs[pair][1]],
                         room_order[ResolvePairs[pair][2]])


\* ---------------------------------------------------------------------
\* The count returned by _resolve_overlaps
\* ---------------------------------------------------------------------

\* the pairs of rooms that overlap in the layout as it stands
StillOverlapping ==
    {i \in 1..Len(ResolvePairs) :
        _check_overlap(room_order[ResolvePairs[i][1]],
                       room_order[ResolvePairs[i][2]])}

\* C26: the count _resolve_overlaps returns is the number of pairs of rooms
\* that still overlap in the layout it leaves behind
C26_CountIsRemaining ==
    pc = "resolved" => overlap_count = Cardinality(StillOverlapping)

\* a count of zero is returned only for a layout without overlap, and the
\* loop runs resolve_max_iterations sweeps at most
ZeroCountMeansNoOverlap ==
    /\ (pc = "resolved" /\ overlap_count = 0) => StillOverlapping = {}
    /\ pc \in {"resolve", "resolved"} => sweep < resolve_max_iterations

\* C26, its last part: a count above zero is returned only when some pair
\* still overlaps
CountAboveZeroMeansOverlap ==
    (pc = "resolved" /\ overlap_count > 0) => StillOverlapping # {}


\* ---------------------------------------------------------------------
\* Overlap resolution on a circular plot
\* ---------------------------------------------------------------------

\* the room fits in the circle: its half-diagonal is within the radius
FitsCircle(r) ==
    Isqrt((dimensions[r][1] \div 2) * (dimensions[r][1] \div 2)
          + (dimensions[r][2] \div 2) * (dimensions[r][2] \div 2))
      <= plot_circle.radius

\* the distance of the farthest corner of the room from the centre of the
\* circle
FarthestCorner(r) ==
    SetMax({Norm(VSub(Corners(positions[r], dimensions[r][1],
                              dimensions[r][2])[k], plot_circle.center)) :
               k \in 1..4})

\* C27: on a circular plot every room that fits has its four corners within
\* the circle after the overlap resolution (a tenth of a metre is allowed
\* for the rounding of the projection)
C27_CornersInCircleAfterResolve ==
    (pc = "resolved" /\ plot_shape = "circular" /\ plot_circle.set)
        => \A i \in 1..Len(room_order) :
              FitsCircle(room_order[i])
                  => FarthestCorner(room_order[i])
                         <= plot_circle.radius + Scale \div 10


(***************************************************************************)
(* compute_energy and SpatialIndex.query_nearby as functions of the        *)
(* layout, the request and the path of the index                           *)
(***************************************************************************)
\* the layouts: a room and a second one that touches it, lies 0.3 m or
\* 0.7 m from it, overlaps it, or lies 1 m and more from it; in both orders
EnergyFirst == box(0, 1000, 1500, 3000)
EnergySecond ==
    {box(1500, 1000, 3000, 3000), box(1800, 1000, 3300, 3000),
     box(2200, 1000, 3700, 3000), box(1000, 1000, 2500, 3000),
     box(2500, 3000, 4000, 4000)}
EnergyLayouts ==
    {<<NewRoom(EnergyFirst), NewRoom(s)>> : s \in EnergySecond}
    \cup {<<NewRoom(s), NewRoom(EnergyFirst)>> : s \in EnergySecond}

\* req['adjacency']: <<i, j>> stands for j in adjacency[i]
AdjacencySets == SUBSET {<<1, 2>>, <<2, 1>>}

EnergyRoomTypes == <<"living">>

\* SpatialIndex(rooms) on the R-tree path or on the grid path
IndexOnPath(rooms, rtree) == [SpatialIndex(rooms) EXCEPT !.use_rtree = rtree]

\* compute_energy(rooms, req, phi, params)
EnergyCall ==
    /\ fn_pc = "idle"
    /\ fn_out' = <<EnergyWith(fn_in.rooms, fn_in.req, EnergyRoomTypes,
                              IndexOnPath(fn_in.rooms, fn_in.use_rtree))>>
    /\ fn_pc' = "energy"
    /\ UNCHANGED fn_in
    /\ UNCHANGED <<placer_vars, sa_vars, ci_vars, ix_vars, pip_vars, pg_vars>>

\* SpatialIndex(rooms).query_nearby(rooms[0].polygon, min_clearance)
NearbyCall ==
    /\ fn_pc = "idle"
    /\ fn_out' = <<query_nearby(IndexOnPath(fn_in.rooms, fn_in.use_rtree),
                                fn_in.rooms[1].polygon, min_circulation)>>
    /\ fn_pc' = "nearby"
    /\ UNCHANGED fn_in
    /\ UNCHANGED <<placer_vars, sa_vars, ci_vars, ix_vars, pip_vars, pg_vars>>

InitEnergy ==
    /\ SolversIdle
    /\ CiIdle /\ IxIdle /\ PipIdle /\ PgIdle
    /\ fn_pc = "idle"
    /\ fn_in \in {[rooms |-> l,
                   req |-> [has_area |-> FALSE, area |-> <<>>,
                            adjacency |-> a, plot |-> SAPlot],
                   use_rtree |-> t] :
                     l \in EnergyLayouts, a \in AdjacencySets, t \in BOOLEAN}
    /\ fn_out = << >>

NextEnergy == EnergyCall \/ NearbyCall

\* one call of compute_energy or of query_nearby
SpecEnergy == InitEnergy /\ [][NextEnergy]_vars

\* the adjacency with every pair in both directions
Undirected(adjacency) == adjacency \cup {<<p[2], p[1]>> : p \in adjacency}

\* C28: compute_energy treats the required adjacency as undirected: a pair
\* required in one direction only is charged as the pair required in both
\* directions is (the distance when the rooms do not touch, and no
\* penalty of 0.1 for contact)
C28_AdjacencyUndirected ==
    fn_pc = "energy" =>
        fn_out[1] = EnergyWith(fn_in.rooms,
                               [fn_in.req EXCEPT !.adjacency = Undirected(@)],
                               EnergyRoomTypes,
                               IndexOnPath(fn_in.rooms, fn_in.use_rtree))

\* a pair named in the list of the room with the lower index is charged
\* as a required pair
ForwardPairIsRequired ==
    (fn_pc = "energy" /\ <<1, 2>> \in fn_in.req.adjacency) =>
        fn_out[1] = EnergyWith(fn_in.rooms,
                               [fn_in.req EXCEPT !.adjacency = Undirected(@)],
                               EnergyRoomTypes,
                               IndexOnPath(fn_in.rooms, fn_in.use_rtree))


\* the rooms whose bounding box lies within the distance of the polygon's
WithinDistance(rooms, polygon, distance) ==
    {j \in 1..Len(rooms) : PolyDistance(polygon, rooms[j].polygon) <= distance}

\* C29: query_nearby(p, d) returns every indexed room whose bounding box
\* lies within d of the bounding box of p, and the same set on the grid
\* path and on the R-tree path; the energy, with its circulation term, is
\* the same on both paths
C29_NearbySameOnBothPaths ==
    /\ fn_pc = "nearby" =>
         /\ WithinDistance(fn_in.rooms, fn_in.rooms[1].polygon, min_circulation)
              \subseteq fn_out[1]
         /\ fn_out[1] = query_nearby(IndexOnPath(fn_in.rooms, ~fn_in.use_rtree),
                                     fn_in.rooms[1].polygon, min_circulation)
    /\ fn_pc = "energy" =>
         fn_out[1] = EnergyWith(fn_in.rooms, fn_in.req, EnergyRoomTypes,
                                IndexOnPath(fn_in.rooms, ~fn_in.use_rtree))

\* on the grid path query_nearby returns every room within the distance
NearbyCompleteOnGrid ==
    (fn_pc = "nearby" /\ ~fn_in.use_rtree) =>
        WithinDistance(fn_in.rooms, fn_in.rooms[1].polygon, min_circulation)
          \subseteq fn_out[1]

\* on the R-tree path query_nearby returns every room within the distance
NearbyCompleteOnRtree ==
    (fn_pc = "nearby" /\ fn_in.use_rtree) =>
        WithinDistance(fn_in.rooms, fn_in.rooms[1].polygon, min_circulation)
          \subseteq fn_out[1]

\* the energy is the same on both paths
EnergySameOnBothPaths ==
    fn_pc = "energy" =>
        fn_out[1] = EnergyWith(fn_in.rooms, fn_in.req, EnergyRoomTypes,
                               IndexOnPath(fn_in.rooms, ~fn_in.use_rtree))


\* ---------------------------------------------------------------------
\* The target of the placer and the anchor of the Vastu field
\* ---------------------------------------------------------------------

\* the rooms of the request that the placer has positioned and whose type
\* has an entry in VASTU_PREFERENCES and in VASTU_ZONES
InBothTables ==
    {i \in 1..Len(request.rooms) :
        /\ request.rooms[i].id \in DOMAIN positions
        /\ _normalize_room_type(request.rooms[i].type) \in VastuTypes
        /\ HasVastuZone(_normalize_room_type(request.rooms[i].type))}

\* C30: for a room type of both tables the target of the placer,
\* _get_vastu_target_position, lies at the fraction of the plot at which
\* VASTU_ZONES anchors the field of the type (plots with the direction
\* map, that is all but the triangular ones)
C30_PlacerTargetIsFieldAnchor ==
    plot_shape # "triangular" =>
        \A i \in InBothTables :
            _get_vastu_target_position(request.rooms[i].type)
              = ZoneCentre(<<0, 0, plot_width, plot_length>>,
                           _normalize_room_type(request.rooms[i].type))

====
